---- MODULE Spec2Model ----
(***************************************************************************)
(* A model of kevjava/task-parser: the mode-aware tokenizer, the churn and *)
(* tt extractors, the duration / date / recurrence / time-window grammars  *)
(* and the TaskParser facade (parse, format).                              *)
(*                                                                         *)
(* A JavaScript string is modelled as a sequence of one-character strings, *)
(* so that every regular expression of the source is an operator over the  *)
(* characters and formatting is concatenation, not the identity.           *)
(* An optional field (`x?: T`) is a sequence of length 0 (undefined) or 1. *)
(***************************************************************************)
EXTENDS Integers, Sequences, FiniteSets, TLC

(***************************************************************************)
(* Characters and string primitives                                        *)
(***************************************************************************)
DigitSeq == <<"0", "1", "2", "3", "4", "5", "6", "7", "8", "9">>

UpperSeq == <<"A", "B", "C", "D", "E", "F", "G", "H", "I", "J", "K", "L", "M",
              "N", "O", "P", "Q", "R", "S", "T", "U", "V", "W", "X", "Y", "Z">>

LowerSeq == <<"a", "b", "c", "d", "e", "f", "g", "h", "i", "j", "k", "l", "m",
              "n", "o", "p", "q", "r", "s", "t", "u", "v", "w", "x", "y", "z">>

Range(f) == {f[i] : i \in DOMAIN f}

\* \d
IsDigit(c) == c \in Range(DigitSeq)

\* [a-zA-Z]
IsLetter(c) == c \in Range(UpperSeq) \cup Range(LowerSeq)

\* [a-zA-Z0-9_-]
IsIdentChar(c) == IsLetter(c) \/ IsDigit(c) \/ c = "_" \/ c = "-"

\* \s (the white space that occurs in one line of text)
IsSpace(c) == c = " " \/ c = "\t"

Min(S) == CHOOSE x \in S : \A y \in S : x <= y

\* s.slice(n): s without its first n characters
Slice(s, n) == IF n >= Len(s) THEN <<>> ELSE SubSeq(s, n + 1, Len(s))

\* s.slice(0, n)
Take(s, n) == IF n >= Len(s) THEN s ELSE SubSeq(s, 1, n)

\* the length of the longest run of characters at offset `from` of s that
\* are all in `class`, or (with inside = FALSE) all outside it
RunLenOf(s, from, class, inside) ==
    LET bad == {i \in (from + 1)..Len(s) : (s[i] \in class) # inside}
    IN  IF bad = {} THEN (IF from >= Len(s) THEN 0 ELSE Len(s) - from)
        ELSE Min(bad) - 1 - from

\* the characters of \d, of [a-zA-Z0-9_-] and of \s
DigitChars == Range(DigitSeq)

IdentChars == Range(UpperSeq) \cup Range(LowerSeq) \cup Range(DigitSeq) \cup {"_", "-"}

SpaceChars == {" ", "\t"}

\* the greedy run of a class at offset `from`: class*
RunLen(s, from, class) == RunLenOf(s, from, class, TRUE)

\* s.startsWith(p), looked up at offset `from`
StartsWithAt(s, from, p) ==
    /\ from + Len(p) <= Len(s)
    /\ \A i \in 1..Len(p) : s[from + i] = p[i]

StartsWith(s, p) == StartsWithAt(s, 0, p)

\* String.prototype.trim
TrimStart(s) == Slice(s, RunLen(s, 0, SpaceChars))

TrimEnd(s) ==
    LET good == {i \in 1..Len(s) : ~IsSpace(s[i])}
    IN  IF good = {} THEN <<>> ELSE SubSeq(s, 1, CHOOSE i \in good : \A j \in good : j <= i)

Trim(s) == TrimEnd(TrimStart(s))

\* String.prototype.toLowerCase
LowerChar(c) ==
    IF c \in Range(UpperSeq)
    THEN LowerSeq[CHOOSE i \in DOMAIN UpperSeq : UpperSeq[i] = c]
    ELSE c

ToLowerCase(s) == [i \in DOMAIN s |-> LowerChar(s[i])]

DigitValue(c) == (CHOOSE i \in DOMAIN DigitSeq : DigitSeq[i] = c) - 1

\* parseInt(s, 10) of a string of digits
RECURSIVE ParseInt(_)
ParseInt(s) ==
    IF s = <<>> THEN 0
    ELSE 10 * ParseInt(SubSeq(s, 1, Len(s) - 1)) + DigitValue(s[Len(s)])

\* String(n) of a non-negative integer
RECURSIVE NatToString(_)
NatToString(n) ==
    IF n < 10 THEN <<DigitSeq[n + 1]>>
    ELSE NatToString(n \div 10) \o <<DigitSeq[(n % 10) + 1]>>

\* s.padStart(2, '0')
PadStart2(s) == IF Len(s) < 2 THEN <<"0">> \o s ELSE s

\* parts.join(sep)
RECURSIVE Join(_, _)
Join(parts, sep) ==
    IF parts = <<>> THEN <<>>
    ELSE IF Len(parts) = 1 THEN parts[1]
    ELSE parts[1] \o sep \o Join(Tail(parts), sep)

\* s.split(sep) for a one-character separator
RECURSIVE SplitOn(_, _)
SplitOn(s, sep) ==
    LET hits == {i \in 1..Len(s) : s[i] = sep}
    IN  IF hits = {} THEN <<s>>
        ELSE <<Take(s, Min(hits) - 1)>> \o SplitOn(Slice(s, Min(hits)), sep)

\* s.split(/\s+/)
RECURSIVE SplitWs(_)
SplitWs(s) ==
    LET hits == {i \in 1..Len(s) : IsSpace(s[i])}
    IN  IF hits = {} THEN <<s>>
        ELSE <<Take(s, Min(hits) - 1)>>
             \o SplitWs(Slice(s, Min(hits) - 1 + RunLen(s, Min(hits) - 1, SpaceChars)))

\* s[i - 1] of JavaScript (1-based here); "" stands for undefined
CharAt(s, i) == IF i \in 1..Len(s) THEN s[i] ELSE ""

(***************************************************************************)
(* Token types (types.ts) and the regular expressions of the tokenizer.    *)
(* A matcher returns the length of match[0]; 0 means "no match" (no        *)
(* pattern of the source matches the empty string).                        *)
(***************************************************************************)
TokenType == {"DESCRIPTION", "PROJECT", "TAG", "DURATION",
              "DATE", "BUCKET", "RECURRENCE", "WINDOW", "DEPENDENCIES",
              "TIMESTAMP", "PRIORITY", "EXPLICIT_DURATION", "REMARK",
              "RESUME_MARKER", "END_MARKER", "PAUSE_MARKER", "ABANDON_MARKER",
              "STATE_SUFFIX"}

ParserMode == {"tt", "churn"}

\* \d{1,2}:\d{2} at offset `from`
TimeLen(s, from) ==
    IF /\ IsDigit(CharAt(s, from + 1)) /\ IsDigit(CharAt(s, from + 2))
       /\ CharAt(s, from + 3) = ":"
       /\ IsDigit(CharAt(s, from + 4)) /\ IsDigit(CharAt(s, from + 5))
    THEN 5
    ELSE IF /\ IsDigit(CharAt(s, from + 1)) /\ CharAt(s, from + 2) = ":"
            /\ IsDigit(CharAt(s, from + 3)) /\ IsDigit(CharAt(s, from + 4))
    THEN 4
    ELSE 0

\* (:\d{2})? at offset `from`
SecondsLen(s, from) ==
    IF /\ CharAt(s, from + 1) = ":"
       /\ IsDigit(CharAt(s, from + 2)) /\ IsDigit(CharAt(s, from + 3))
    THEN 3 ELSE 0

\* \d{4}-\d{2}-\d{2} at the start of s
IsoDateLen(s) ==
    IF /\ \A i \in {1, 2, 3, 4, 6, 7, 9, 10} : IsDigit(CharAt(s, i))
       /\ CharAt(s, 5) = "-" /\ CharAt(s, 8) = "-"
    THEN 10 ELSE 0

\* /^(\d{4}-\d{2}-\d{2}\s+)?\d{1,2}:\d{2}(:\d{2})?/
TimestampMatchLen(s) ==
    LET ws      == RunLen(s, 10, SpaceChars)
        dateLen == IF IsoDateLen(s) = 10 /\ ws > 0 THEN 10 + ws ELSE 0
        dated   == IF dateLen > 0 THEN TimeLen(s, dateLen) ELSE 0
        bare    == TimeLen(s, 0)
    IN  IF dated > 0 THEN dateLen + dated + SecondsLen(s, dateLen + dated)
        ELSE IF bare > 0 THEN bare + SecondsLen(s, bare)
        ELSE 0

StateMarkerWords ==
    << <<"e", "n", "d">>, <<"p", "a", "u", "s", "e">>,
       <<"a", "b", "a", "n", "d", "o", "n">>, <<"r", "e", "s", "u", "m", "e">>,
       <<"p", "r", "e", "v">> >>

\* the length of the alternative of (end|pause|abandon|resume|prev|\d+) that
\* lets /^@(...)(?:\s|$)/ match, or 0
StateMarkerBodyLen(s) ==
    LET closes(n) == 1 + n = Len(s) \/ IsSpace(CharAt(s, n + 2))
        words == {i \in DOMAIN StateMarkerWords :
                     /\ StartsWithAt(s, 1, StateMarkerWords[i])
                     /\ closes(Len(StateMarkerWords[i]))}
        digits == RunLen(s, 1, DigitChars)
    IN  IF CharAt(s, 1) # "@" THEN 0
        ELSE IF words # {} THEN Len(StateMarkerWords[Min(words)])
        ELSE IF digits > 0 /\ closes(digits) THEN digits
        ELSE 0

\* match[0].length of /^@(end|pause|abandon|resume|prev|\d+)(?:\s|$)/
StateMarkerMatchLen(s) ==
    LET n == StateMarkerBodyLen(s)
    IN  IF n = 0 THEN 0 ELSE IF 1 + n = Len(s) THEN 1 + n ELSE 2 + n

\* [a-zA-Z][a-zA-Z0-9_-]*(?=\s|$): an identifier that ends its word
IdentLenWholeWord(s, from) ==
    IF /\ IsLetter(CharAt(s, from + 1))
       /\ \/ from + 1 + RunLen(s, from + 1, IdentChars) = Len(s)
          \/ CharAt(s, from + 1 + RunLen(s, from + 1, IdentChars) + 1) \in SpaceChars
    THEN 1 + RunLen(s, from + 1, IdentChars) ELSE 0

\* [a-zA-Z][a-zA-Z0-9_-]* at offset `from`
IdentLen(s, from) ==
    IF IsLetter(CharAt(s, from + 1)) THEN 1 + RunLen(s, from + 1, IdentChars) ELSE 0

\* (\d+) in place of (\d+h\d+m|\d+[hm]): the unit is not required
DurationLenDigits(s, from) == RunLen(s, from, DigitChars)

\* (\d+h\d+m|\d+[hm]) at offset `from`: the two-component form is tried first
DurationLen(s, from) ==
    LET h  == RunLen(s, from, DigitChars)
        m  == RunLen(s, from + h + 1, DigitChars)
    IN  IF h = 0 THEN 0
        ELSE IF /\ CharAt(s, from + h + 1) = "h" /\ m > 0
                /\ CharAt(s, from + h + 1 + m + 1) = "m"
        THEN h + 1 + m + 1
        ELSE IF CharAt(s, from + h + 1) \in {"h", "m"} THEN h + 1
        ELSE 0

\* /^\((\d+h\d+m|\d+[hm])\)/: the length of the duration inside, or 0
ExplicitDurationLen(s) ==
    LET h  == RunLen(s, 1, DigitChars)
        long == DurationLen(s, 1)
    IN  IF CharAt(s, 1) # "(" \/ long = 0 THEN 0
        ELSE IF CharAt(s, 1 + long + 1) = ")" THEN long
        ELSE IF CharAt(s, 1 + h + 1) \in {"h", "m"} /\ CharAt(s, 1 + h + 2) = ")"
        THEN h + 1
        ELSE 0

StateSuffixWords ==
    << <<"p", "a", "u", "s", "e", "d">>,
       <<"c", "o", "m", "p", "l", "e", "t", "e", "d">>,
       <<"a", "b", "a", "n", "d", "o", "n", "e", "d">> >>

\* /^->(paused|completed|abandoned)/: the length of the word, or 0
StateSuffixLen(s) ==
    LET hits == {i \in DOMAIN StateSuffixWords : StartsWithAt(s, 2, StateSuffixWords[i])}
    IN  IF hits = {} THEN 0 ELSE Len(StateSuffixWords[Min(hits)])

WindowPrefix == <<"w", "i", "n", "d", "o", "w", ":">>

AfterPrefix == <<"a", "f", "t", "e", "r", ":">>

\* (\d{1,2}:\d{2}-\d{1,2}:\d{2}) at offset `from`
WindowBodyLen(s, from) ==
    LET a == TimeLen(s, from)
        b == IF a > 0 /\ CharAt(s, from + a + 1) = "-" THEN TimeLen(s, from + a + 1) ELSE 0
    IN  IF b > 0 THEN a + 1 + b ELSE 0

\* (\d+(?:,\d+)*) at offset `from`
RECURSIVE IdListLen(_, _)
IdListLen(s, from) ==
    LET d == RunLen(s, from, DigitChars)
    IN  IF d = 0 THEN 0
        ELSE IF CharAt(s, from + d + 1) = "," /\ IdListLen(s, from + d + 1) > 0
        THEN d + 1 + IdListLen(s, from + d + 1)
        ELSE d

(***************************************************************************)
(* tokenize (tokenizer.ts).  The loop state is a record                    *)
(*   remaining, position, tokens, descriptionParts, descStartPosition      *)
(* plus `done`, set when the loop is left by `break` or by its condition.  *)
(***************************************************************************)
Token(type, value, position) == [type |-> type, value |-> value, position |-> position]

\* "Flush description if any": the block repeated before every tokens.push
FlushDescription(st) ==
    IF Len(st.descriptionParts) > 0
    THEN [st EXCEPT !.tokens = Append(@, Token("DESCRIPTION",
                                   Trim(Join(st.descriptionParts, <<" ">>)),
                                   st.descStartPosition)),
                    !.descriptionParts = <<>>]
    ELSE st

\* push the marker's token and move past match[0] without the flush
EmitMarkerNoFlush(st, type, value, n) ==
    [st EXCEPT !.tokens = Append(@, Token(type, value, st.position)),
               !.position = st.position + n,
               !.remaining = Slice(st.remaining, n),
               !.descStartPosition = st.position + n]

\* flush, push the marker's token, then move past match[0] (of length n)
EmitMarker(st, type, value, n) ==
    LET f == FlushDescription(st)
    IN  [f EXCEPT !.tokens = Append(@, Token(type, value, st.position)),
                  !.position = st.position + n,
                  !.remaining = Slice(st.remaining, n),
                  !.descStartPosition = st.position + n]

\* the state before the tt prefix matches
TokenizeStart(trimmed) ==
    [remaining |-> trimmed, position |-> 0, tokens |-> <<>>,
     descriptionParts |-> <<>>, descStartPosition |-> 0, done |-> FALSE]

\* tt mode: the timestamp at the very start
TimestampPrefix(st) ==
    LET n == TimestampMatchLen(st.remaining)
    IN  IF n = 0 THEN st
        ELSE [st EXCEPT !.tokens = Append(@, Token("TIMESTAMP",
                                       Trim(Take(st.remaining, n)), st.position)),
                        !.position = st.position + n,
                        !.remaining = Trim(Slice(st.remaining, n))]

StateMarkerType(marker) ==
    IF marker = StateMarkerWords[1] THEN "END_MARKER"
    ELSE IF marker = StateMarkerWords[2] THEN "PAUSE_MARKER"
    ELSE IF marker = StateMarkerWords[3] THEN "ABANDON_MARKER"
    ELSE "RESUME_MARKER"

\* the state marker match made twice: two markers in a row are taken
StateMarkerPrefixTwice(st) ==
    LET once(s) ==
            LET body == StateMarkerBodyLen(s.remaining)
                n    == StateMarkerMatchLen(s.remaining)
                marker == SubSeq(s.remaining, 2, 1 + body)
            IN  IF n = 0 THEN s
                ELSE [s EXCEPT !.tokens = Append(@, Token(StateMarkerType(marker),
                                              marker, s.position)),
                               !.position = s.position + n,
                               !.remaining = Trim(Slice(s.remaining, n))]
    IN  once(once(st))

\* tt mode: one state marker right after the timestamp
StateMarkerPrefix(st) ==
    LET body == StateMarkerBodyLen(st.remaining)
        n    == StateMarkerMatchLen(st.remaining)
        marker == SubSeq(st.remaining, 2, 1 + body)
    IN  IF n = 0 THEN st
        ELSE [st EXCEPT !.tokens = Append(@, Token(StateMarkerType(marker),
                                       marker, st.position)),
                        !.position = st.position + n,
                        !.remaining = Trim(Slice(st.remaining, n))]

\* the prefix matches tried whatever the mode is
TokenizePrefixAnyMode(trimmed, mode) ==
    LET st1 == StateMarkerPrefix(TimestampPrefix(TokenizeStart(trimmed)))
    IN  [st1 EXCEPT !.descStartPosition = st1.position]

\* lines 36-77: the prefix matches of tt mode, then the loop's initial state
TokenizePrefix(trimmed, mode) ==
    LET st0 == TokenizeStart(trimmed)
        st1 == IF mode = "tt" THEN StateMarkerPrefix(TimestampPrefix(st0)) ELSE st0
    IN  [st1 EXCEPT !.descStartPosition = st1.position]

\* an iteration that matches nothing and consumes nothing
MatchAtCursorStuck(st, mode) == st

\* one iteration of `while (remaining.length > 0)`, with leading white space
\* already skipped: the ordered marker tests, then the description word
MatchAtCursor(st, mode) ==
    LET r    == st.remaining
        char == r[1]
        ident == IdentLen(r, 1)
        dur  == DurationLen(r, 1)
        expl == ExplicitDurationLen(r)
        sfx  == StateSuffixLen(r)
        win  == WindowBodyLen(r, Len(WindowPrefix))
        deps == IdListLen(r, Len(AfterPrefix))
        word == RunLenOf(r, 0, SpaceChars, FALSE)
    IN  IF char = "@" /\ ident > 0
        THEN EmitMarker(st, "PROJECT", SubSeq(r, 2, 1 + ident), 1 + ident)
        ELSE IF char = "+" /\ ident > 0
        THEN EmitMarker(st, "TAG", SubSeq(r, 2, 1 + ident), 1 + ident)
        ELSE IF char = "~" /\ dur > 0
        THEN EmitMarker(st, "DURATION", SubSeq(r, 2, 1 + dur), 1 + dur)
        ELSE IF mode = "churn" /\ char = "$" /\ ident > 0
        THEN EmitMarker(st, "BUCKET", SubSeq(r, 2, 1 + ident), 1 + ident)
        ELSE IF mode = "tt" /\ char = "^" /\ CharAt(r, 2) \in Range(Tail(DigitSeq))
        THEN EmitMarker(st, "PRIORITY", SubSeq(r, 2, 2), 2)
        ELSE IF mode = "tt" /\ char = "(" /\ expl > 0
        THEN EmitMarker(st, "EXPLICIT_DURATION", SubSeq(r, 2, 1 + expl), expl + 2)
        ELSE IF mode = "tt" /\ char = "#" /\ Len(r) > 1 /\ r[2] = " "
        THEN [FlushDescription(st) EXCEPT
                 !.tokens = Append(@, Token("REMARK", Slice(r, 2), st.position)),
                 !.done = TRUE]
        ELSE IF mode = "tt" /\ StartsWith(r, <<"-", ">">>) /\ sfx > 0
        THEN EmitMarker(st, "STATE_SUFFIX", SubSeq(r, 3, 2 + sfx), 2 + sfx)
        ELSE IF mode = "churn" /\ StartsWith(r, WindowPrefix) /\ win > 0
        THEN EmitMarker(st, "WINDOW",
                        SubSeq(r, Len(WindowPrefix) + 1, Len(WindowPrefix) + win),
                        Len(WindowPrefix) + win)
        ELSE IF mode = "churn" /\ StartsWith(r, AfterPrefix) /\ deps > 0
        THEN EmitMarker(st, "DEPENDENCIES",
                        SubSeq(r, Len(AfterPrefix) + 1, Len(AfterPrefix) + deps),
                        Len(AfterPrefix) + deps)
        ELSE IF word > 0
        THEN [st EXCEPT !.descriptionParts = Append(@, Take(r, word)),
                        !.position = st.position + word,
                        !.remaining = Slice(r, word)]
        ELSE [st EXCEPT !.done = TRUE]

\* one pass through the loop body that goes on scanning after a remark
LoopIterationPastRemark(st, mode) ==
    LET n  == RunLen(st.remaining, 0, SpaceChars)
        sk == [st EXCEPT !.remaining = Slice(st.remaining, n),
                         !.position = st.position + n]
    IN  IF Len(sk.remaining) = 0 THEN [sk EXCEPT !.done = TRUE]
        ELSE IF mode = "tt" /\ Len(sk.remaining) > 1
                /\ sk.remaining[1] = "#" /\ sk.remaining[2] = " "
        THEN [MatchAtCursor(sk, mode) EXCEPT
                 !.done = FALSE,
                 !.position = sk.position + 2,
                 !.remaining = Slice(sk.remaining, 2),
                 !.descStartPosition = sk.position + 2]
        ELSE MatchAtCursor(sk, mode)

\* lines 79-348: one pass through the loop body
LoopIteration(st, mode) ==
    LET n  == RunLen(st.remaining, 0, SpaceChars)
        sk == [st EXCEPT !.remaining = Slice(st.remaining, n),
                         !.position = st.position + n]
    IN  IF Len(sk.remaining) = 0 THEN [sk EXCEPT !.done = TRUE]
        ELSE MatchAtCursor(sk, mode)

RECURSIVE RunLoop(_, _)
RunLoop(st, mode) ==
    IF st.done \/ Len(st.remaining) = 0 THEN st
    ELSE RunLoop(LoopIteration(st, mode), mode)

\* tokenize(trimmed, mode).tokens for a non-empty trimmed input (lines 32-362)
TokenizeTrimmed(trimmed, mode) ==
    FlushDescription(RunLoop(TokenizePrefix(trimmed, mode), mode)).tokens

\* findTokens / findToken
FindTokens(tokens, type) == SelectSeq(tokens, LAMBDA t : t.type = type)

\* findToken as an optional value
FindToken(tokens, type) ==
    LET hits == FindTokens(tokens, type)
    IN  IF hits = <<>> THEN <<>> ELSE <<hits[1]>>


(***************************************************************************)
(* The JavaScript Date values the parser builds: local civil time, as the  *)
(* record [year, month (1-12), day, hours, minutes, seconds].  The Date    *)
(* constructor carries out-of-range components into the next unit.         *)
(***************************************************************************)
\* days since 1970-01-01 of a proleptic Gregorian date (month may exceed 12)
DaysFromCivil(y, m, d) ==
    LET yy  == y + ((m - 1) \div 12)
        mm  == ((m - 1) % 12) + 1
        ya  == IF mm <= 2 THEN yy - 1 ELSE yy
        era == ya \div 400
        yoe == ya - era * 400
        mp  == IF mm > 2 THEN mm - 3 ELSE mm + 9
        doy == ((153 * mp + 2) \div 5) + d - 1
        doe == yoe * 365 + (yoe \div 4) - (yoe \div 100) + doy
    IN  era * 146097 + doe - 719468

CivilFromDays(z) ==
    LET zz  == z + 719468
        era == zz \div 146097
        doe == zz - era * 146097
        yoe == (doe - (doe \div 1460) + (doe \div 36524) - (doe \div 146096)) \div 365
        doy == doe - (365 * yoe + (yoe \div 4) - (yoe \div 100))
        mp  == (5 * doy + 2) \div 153
        d   == doy - ((153 * mp + 2) \div 5) + 1
        m   == IF mp < 10 THEN mp + 3 ELSE mp - 9
        y   == yoe + era * 400 + (IF m <= 2 THEN 1 ELSE 0)
    IN  [year |-> y, month |-> m, day |-> d]

\* new Date(year, monthIndex + 1, day, hours, minutes, seconds)
MakeDate(y, m, d, h, mi, s) ==
    LET secs  == h * 3600 + mi * 60 + s
        days  == DaysFromCivil(y, m, d) + (secs \div 86400)
        rest  == secs % 86400
        civil == CivilFromDays(days)
    IN  [year |-> civil.year, month |-> civil.month, day |-> civil.day,
         hours |-> rest \div 3600, minutes |-> (rest % 3600) \div 60,
         seconds |-> rest % 60]

\* date.setHours(0, 0, 0, 0)
AtMidnight(date) == [date EXCEPT !.hours = 0, !.minutes = 0, !.seconds = 0]

\* date.setDate(date.getDate() + n)
AddDays(date, n) ==
    MakeDate(date.year, date.month, date.day + n, date.hours, date.minutes, date.seconds)

\* date.getDay(): 0 = Sunday
GetDay(date) == (DaysFromCivil(date.year, date.month, date.day) + 4) % 7

(***************************************************************************)
(* Results of operations that may throw ParseError                         *)
(***************************************************************************)
Ok(v) == [ok |-> TRUE, error |-> "", value |-> v]

Throw(message) == [ok |-> FALSE, error |-> message, value |-> <<>>]

(***************************************************************************)
(* Duration grammar.  parsers/duration.ts is not among the sources: parse  *)
(* and format follow section 4.3 of the specification; the tt formatter    *)
(* (formatDurationValue) is in modes/tt.ts.                                *)
(***************************************************************************)
\* <N>h<N>m | <N>h | <N>m  ->  h * 60 + m
ParseDuration(s) ==
    LET a == RunLen(s, 0, DigitChars)
        n == ParseInt(Take(s, a))
        b == RunLen(s, a + 1, DigitChars)
    IN  IF CharAt(s, a + 1) = "h"
        THEN n * 60 + (IF b > 0 THEN ParseInt(SubSeq(s, a + 2, a + 1 + b)) ELSE 0)
        ELSE n

\* formatDurationValue that always writes both components
FormatDurationValueBoth(minutes) ==
    NatToString(minutes \div 60) \o <<"h">> \o NatToString(minutes % 60) \o <<"m">>

\* formatDurationValue (modes/tt.ts)
FormatDurationValue(minutes) ==
    LET hours == minutes \div 60
        mins  == minutes % 60
    IN  IF hours > 0 /\ mins > 0
        THEN NatToString(hours) \o <<"h">> \o NatToString(mins) \o <<"m">>
        ELSE IF hours > 0 THEN NatToString(hours) \o <<"h">>
        ELSE NatToString(mins) \o <<"m">>

\* formatDuration (parsers/duration.ts): omit a zero component, 0 gives 0m
FormatDuration(minutes) ==
    LET hours == minutes \div 60
        mins  == minutes % 60
    IN  (IF hours > 0 THEN NatToString(hours) \o <<"h">> ELSE <<>>)
        \o (IF mins > 0 \/ hours = 0 THEN NatToString(mins) \o <<"m">> ELSE <<>>)

(***************************************************************************)
(* Date grammar (parsers/date.ts)                                          *)
(***************************************************************************)
WEEKDAYS == << <<"s", "u", "n", "d", "a", "y">>, <<"m", "o", "n", "d", "a", "y">>, <<"t", "u", "e", "s", "d", "a", "y">>, <<"w", "e", "d", "n", "e", "s", "d", "a", "y">>,
              <<"t", "h", "u", "r", "s", "d", "a", "y">>, <<"f", "r", "i", "d", "a", "y">>, <<"s", "a", "t", "u", "r", "d", "a", "y">> >>

\* WEEKDAYS.indexOf(lower): 0..6, or -1
WeekdayIndexOf(lower) ==
    LET hits == {i \in DOMAIN WEEKDAYS : WEEKDAYS[i] = lower}
    IN  IF hits = {} THEN -1 ELSE Min(hits) - 1

getWeekdayIndex(name) == WeekdayIndexOf(ToLowerCase(name))

isWeekday(input) == WeekdayIndexOf(ToLowerCase(input)) # -1

\* getNextWeekday that stays on a date that is the target day
getNextWeekdayOrSame(targetDay, fromDate) ==
    LET currentDay == GetDay(fromDate)
        daysUntil  == targetDay - currentDay
    IN  AddDays(fromDate, IF daysUntil < 0 THEN daysUntil + 7 ELSE daysUntil)

getNextWeekday(targetDay, fromDate) ==
    LET currentDay == GetDay(fromDate)
        daysUntil  == targetDay - currentDay
    IN  AddDays(fromDate, IF daysUntil <= 0 THEN daysUntil + 7 ELSE daysUntil)

\* new Date(iso + 'T00:00:00'): <<>> stands for an Invalid Date.  The engine
\* (V8) takes any month 1-12 with any day 1-31 and carries the overflow.
NewDateFromIso(iso) ==
    LET y == ParseInt(SubSeq(iso, 1, 4))
        m == ParseInt(SubSeq(iso, 6, 7))
        d == ParseInt(SubSeq(iso, 9, 10))
    IN  IF m \in 1..12 /\ d \in 1..31 THEN <<MakeDate(y, m, d, 0, 0, 0)>> ELSE <<>>

\* parseDate(input, referenceDate): Ok(<<date>>), Ok(<<>>) for null, or a throw.
\* `clock` is what `new Date()` returns when no reference date is given.
parseDate(input, referenceDate, clock) ==
    LET trimmed == Trim(input)
        lower   == ToLowerCase(trimmed)
        today   == AtMidnight(IF referenceDate # <<>> THEN referenceDate[1] ELSE clock)
        dayIndex == WeekdayIndexOf(lower)
    IN  IF IsoDateLen(trimmed) = 10 /\ Len(trimmed) = 10
        THEN IF NewDateFromIso(trimmed) = <<>> THEN Throw("Invalid date")
             ELSE Ok(NewDateFromIso(trimmed))
        ELSE IF lower = <<"t", "o", "d", "a", "y">> THEN Ok(<<today>>)
        ELSE IF lower = <<"t", "o", "m", "o", "r", "r", "o", "w">> THEN Ok(<<AddDays(today, 1)>>)
        ELSE IF dayIndex # -1 THEN Ok(<<getNextWeekday(dayIndex, today)>>)
        ELSE Ok(<<>>)

\* formatDate: YYYY-MM-DD (String(year) is not padded)
formatDate(date) ==
    NatToString(date.year) \o <<"-">> \o PadStart2(NatToString(date.month))
    \o <<"-">> \o PadStart2(NatToString(date.day))


(***************************************************************************)
(* Recurrence grammar (parsers/recurrence.ts)                              *)
(***************************************************************************)
SHORTHAND == << <<"d", "a", "i", "l", "y">>, <<"w", "e", "e", "k", "l", "y">>, <<"m", "o", "n", "t", "h", "l", "y">> >>

\* UNIT_MAP
UnitName(c) == IF c = "d" THEN "days" ELSE IF c = "w" THEN "weeks" ELSE "months"

\* unitMap of formatRecurrence
UnitChar(unit) == IF unit = "days" THEN "d" ELSE IF unit = "weeks" THEN "w" ELSE "m"

\* isTime with any digits taken as hour and minute
isTimeAnyDigits(token) == Len(token) > 0 /\ TimeLen(token, 0) = Len(token)

\* /^([01]?[0-9]|2[0-3]):[0-5][0-9]$/
isTime(token) ==
    LET h == Len(token) - 3
    IN  /\ h \in {1, 2}
        /\ token[h + 1] = ":"
        /\ token[h + 2] \in {"0", "1", "2", "3", "4", "5"}
        /\ IsDigit(token[h + 3])
        /\ IF h = 1 THEN IsDigit(token[1])
           ELSE \/ token[1] \in {"0", "1"} /\ IsDigit(token[2])
                \/ token[1] = "2" /\ token[2] \in {"0", "1", "2", "3"}

\* normalizeTime: pad the hour to two digits
normalizeTime(token) ==
    LET parts == SplitOn(token, ":")
    IN  PadStart2(parts[1]) \o <<":">> \o parts[2]

\* a RecurrencePattern that is anchored in completion mode too
PatternAnchored(mode, type, interval, unit, dayOfWeek, timeOfDay, anchor) ==
    [mode |-> mode, type |-> type, interval |-> interval, unit |-> unit,
     dayOfWeek |-> dayOfWeek, timeOfDay |-> timeOfDay,
     anchor |-> IF anchor = <<>> THEN <<MakeDate(2025, 2, 3, 0, 0, 0)>> ELSE anchor]

\* a RecurrencePattern; every optional field is <<>> or <<value>>
Pattern(mode, type, interval, unit, dayOfWeek, timeOfDay, anchor) ==
    [mode |-> mode, type |-> type, interval |-> interval, unit |-> unit,
     dayOfWeek |-> dayOfWeek, timeOfDay |-> timeOfDay, anchor |-> anchor]

\* "Check for optional time": the pattern and tokensConsumed, with or without
\* the time word at tokens[at]
WithOptionalTime(pattern, tokens, at) ==
    IF Len(tokens) >= at /\ isTime(tokens[at])
    THEN [pattern |-> [pattern EXCEPT !.timeOfDay = <<normalizeTime(tokens[at])>>],
          tokensConsumed |-> at]
    ELSE [pattern |-> pattern, tokensConsumed |-> at - 1]

\* /^(\d+)(d|w|m)$/
IsInterval(word) ==
    /\ Len(word) >= 2
    /\ RunLen(word, 0, DigitChars) = Len(word) - 1
    /\ word[Len(word)] \in {"d", "w", "m"}

\* parseRecurrence that gives null, not an error, for a word after `every`
\* or `after` that is no weekday and no interval
parseRecurrenceSoft(tokens, referenceDate, clock) ==
    LET first  == ToLowerCase(tokens[1])
        anchor == IF referenceDate # <<>> THEN referenceDate[1] ELSE clock
        second == ToLowerCase(tokens[2])
        interval == ParseInt(Take(second, Len(second) - 1))
        unit   == UnitName(second[Len(second)])
    IN  IF Len(tokens) = 0 THEN Ok(<<>>)
        ELSE IF first \in Range(SHORTHAND)
        THEN Ok(<<WithOptionalTime(
                    Pattern("calendar",
                            IF first = SHORTHAND[1] THEN "daily"
                            ELSE IF first = SHORTHAND[2] THEN "weekly" ELSE "monthly",
                            <<>>, <<>>, <<>>, <<>>, <<anchor>>),
                    tokens, 2)>>)
        ELSE IF first = <<"e", "v", "e", "r", "y">>
        THEN IF Len(tokens) < 2 THEN Throw("Expected weekday or interval after every")
             ELSE IF isWeekday(second)
             THEN Ok(<<WithOptionalTime(
                         Pattern("calendar", "weekly", <<>>, <<>>,
                                 <<getWeekdayIndex(second)>>, <<>>, <<anchor>>),
                         tokens, 3)>>)
             ELSE IF IsInterval(second)
             THEN IF interval <= 0 THEN Throw("Interval must be positive")
                  ELSE Ok(<<WithOptionalTime(
                              Pattern("calendar", "interval", <<interval>>, <<unit>>,
                                      <<>>, <<>>, <<anchor>>),
                              tokens, 3)>>)
             ELSE Ok(<<>>)
        ELSE IF first = <<"a", "f", "t", "e", "r">>
        THEN IF Len(tokens) < 2 THEN Throw("Expected interval after after")
             ELSE IF IsInterval(second)
             THEN IF interval <= 0 THEN Throw("Interval must be positive")
                  ELSE Ok(<<WithOptionalTime(
                              Pattern("completion", "interval", <<interval>>, <<unit>>,
                                      <<>>, <<>>, <<>>),
                              tokens, 3)>>)
             ELSE Ok(<<>>)
        ELSE Ok(<<>>)

\* parseRecurrence(tokens, referenceDate): Ok(<<result>>), Ok(<<>>) for null,
\* or a throw
parseRecurrence(tokens, referenceDate, clock) ==
    LET first  == ToLowerCase(tokens[1])
        anchor == IF referenceDate # <<>> THEN referenceDate[1] ELSE clock
        second == ToLowerCase(tokens[2])
        interval == ParseInt(Take(second, Len(second) - 1))
        unit   == UnitName(second[Len(second)])
    IN  IF Len(tokens) = 0 THEN Ok(<<>>)
        ELSE IF first \in Range(SHORTHAND)
        THEN Ok(<<WithOptionalTime(
                    Pattern("calendar",
                            IF first = SHORTHAND[1] THEN "daily"
                            ELSE IF first = SHORTHAND[2] THEN "weekly" ELSE "monthly",
                            <<>>, <<>>, <<>>, <<>>, <<anchor>>),
                    tokens, 2)>>)
        ELSE IF first = <<"e", "v", "e", "r", "y">>
        THEN IF Len(tokens) < 2 THEN Throw("Expected weekday or interval after every")
             ELSE IF isWeekday(second)
             THEN Ok(<<WithOptionalTime(
                         Pattern("calendar", "weekly", <<>>, <<>>,
                                 <<getWeekdayIndex(second)>>, <<>>, <<anchor>>),
                         tokens, 3)>>)
             ELSE IF IsInterval(second)
             THEN IF interval <= 0 THEN Throw("Interval must be positive")
                  ELSE Ok(<<WithOptionalTime(
                              Pattern("calendar", "interval", <<interval>>, <<unit>>,
                                      <<>>, <<>>, <<anchor>>),
                              tokens, 3)>>)
             ELSE Throw("Invalid recurrence pattern")
        ELSE IF first = <<"a", "f", "t", "e", "r">>
        THEN IF Len(tokens) < 2 THEN Throw("Expected interval after after")
             ELSE IF IsInterval(second)
             THEN IF interval <= 0 THEN Throw("Interval must be positive")
                  ELSE Ok(<<WithOptionalTime(
                              Pattern("completion", "interval", <<interval>>, <<unit>>,
                                      <<>>, <<>>, <<>>),
                              tokens, 3)>>)
             ELSE Throw("Invalid recurrence pattern")
        ELSE Ok(<<>>)

\* formatRecurrence
formatRecurrence(recurrence) ==
    LET timeSuffix == IF recurrence.timeOfDay # <<>>
                      THEN <<" ">> \o recurrence.timeOfDay[1] ELSE <<>>
    IN  IF recurrence.type = "daily" /\ recurrence.mode = "calendar"
        THEN <<"d", "a", "i", "l", "y">> \o timeSuffix
        ELSE IF /\ recurrence.type = "weekly" /\ recurrence.mode = "calendar"
                /\ recurrence.dayOfWeek # <<>>
        THEN <<"e", "v", "e", "r", "y", " ">> \o WEEKDAYS[recurrence.dayOfWeek[1] + 1] \o timeSuffix
        ELSE IF recurrence.type = "monthly" /\ recurrence.mode = "calendar"
        THEN <<"m", "o", "n", "t", "h", "l", "y">> \o timeSuffix
        ELSE IF recurrence.type = "interval"
        THEN (IF recurrence.mode = "calendar" THEN <<"e", "v", "e", "r", "y">> ELSE <<"a", "f", "t", "e", "r">>)
             \o <<" ">> \o NatToString(recurrence.interval[1])
             \o <<UnitChar(recurrence.unit[1])>> \o timeSuffix
        ELSE IF recurrence.type = "weekly" THEN <<"w", "e", "e", "k", "l", "y">> \o timeSuffix
        ELSE IF recurrence.mode = "calendar" THEN <<"w", "e", "e", "k", "l", "y">> ELSE <<"a", "f", "t", "e", "r", " ", "1", "w">>

(***************************************************************************)
(* Time-window grammar (parsers/time-window.ts)                            *)
(***************************************************************************)
MaxHourOfDay == 23

MaxMinuteOfHour == 59

\* parseTime with the hour 24 let through
parseTimeTo24(timeStr) ==
    LET n      == TimeLen(timeStr, 0)
        hour   == ParseInt(Take(timeStr, n - 3))
        minute == ParseInt(Slice(timeStr, n - 2))
    IN  IF n = 0 \/ n # Len(timeStr) THEN Throw("Invalid time format")
        ELSE IF hour < 0 \/ hour > MaxHourOfDay + 1 THEN Throw("Invalid hour")
        ELSE IF minute < 0 \/ minute > MaxMinuteOfHour THEN Throw("Invalid minute")
        ELSE Ok([hour |-> hour, minute |-> minute])

\* parseTime(timeStr): Ok([hour, minute]) or a throw
parseTime(timeStr) ==
    LET n      == TimeLen(timeStr, 0)
        hour   == ParseInt(Take(timeStr, n - 3))
        minute == ParseInt(Slice(timeStr, n - 2))
    IN  IF n = 0 \/ n # Len(timeStr) THEN Throw("Invalid time format")
        ELSE IF hour < 0 \/ hour > MaxHourOfDay THEN Throw("Invalid hour")
        ELSE IF minute < 0 \/ minute > MaxMinuteOfHour THEN Throw("Invalid minute")
        ELSE Ok([hour |-> hour, minute |-> minute])

\* the local normalizeTime of parseTimeWindow
NormalizeWindowTime(time) ==
    LET parts == SplitOn(time, ":")
    IN  PadStart2(parts[1]) \o <<":">> \o parts[2]

\* parseTimeWindow(input): Ok([start, end]) or a throw
parseTimeWindow(input) ==
    LET trimmed  == Trim(input)
        n        == WindowBodyLen(trimmed, 0)
        a        == TimeLen(trimmed, 0)
        startStr == Take(trimmed, a)
        endStr   == Slice(trimmed, a + 1)
    IN  IF n = 0 \/ n # Len(trimmed) THEN Throw("Invalid time window format")
        ELSE IF ~parseTime(startStr).ok THEN parseTime(startStr)
        ELSE IF ~parseTime(endStr).ok THEN parseTime(endStr)
        ELSE Ok([start |-> NormalizeWindowTime(startStr),
                 end |-> NormalizeWindowTime(endStr)])

\* formatTimeWindow
formatTimeWindow(window) == window.start \o <<"-">> \o window.end

\* crossesMidnight with an equal start and end taken as not crossing
CrossesOfStrict(start, end) ==
    IF ~start.ok THEN start
    ELSE IF ~end.ok THEN end
    ELSE Ok(end.value.hour * 60 + end.value.minute
              < start.value.hour * 60 + start.value.minute)

\* lines 513-516 of crossesMidnight, given the outcomes of the two parseTime
\* calls
CrossesOf(start, end) ==
    IF ~start.ok THEN start
    ELSE IF ~end.ok THEN end
    ELSE Ok(end.value.hour * 60 + end.value.minute
              <= start.value.hour * 60 + start.value.minute)

\* crossesMidnight(window): Ok(boolean) or a throw of parseTime
crossesMidnight(window) == CrossesOf(parseTime(window.start), parseTime(window.end))

\* lines 530-540 of isTimeInWindow, given the outcomes of its calls
InsideOf(time, start, end, crosses) ==
    LET timeMinutes  == time.value.hour * 60 + time.value.minute
        startMinutes == start.value.hour * 60 + start.value.minute
        endMinutes   == end.value.hour * 60 + end.value.minute
    IN  IF ~time.ok THEN time
        ELSE IF ~start.ok THEN start
        ELSE IF ~end.ok THEN end
        ELSE IF crosses.value
        THEN Ok(timeMinutes >= startMinutes \/ timeMinutes < endMinutes)
        ELSE Ok(timeMinutes >= startMinutes /\ timeMinutes < endMinutes)

\* isTimeInWindow(timeStr, window): Ok(boolean) or a throw of parseTime
isTimeInWindow(timeStr, window) ==
    InsideOf(parseTime(timeStr), parseTime(window.start), parseTime(window.end),
             crossesMidnight(window))


(***************************************************************************)
(* churn mode (modes/churn.ts)                                             *)
(***************************************************************************)
\* parseDependencies with the id 0 let through
parseDependenciesFromZero(input) ==
    LET ids  == [i \in DOMAIN SplitOn(input, ",") |-> Trim(SplitOn(input, ",")[i])]
        num(id) == ParseInt(Take(id, RunLen(id, 0, DigitChars)))
        bad  == {i \in DOMAIN ids : RunLen(ids[i], 0, DigitChars) = 0 \/ num(ids[i]) < 0}
    IN  IF bad # {} THEN Throw("Invalid dependency ID")
        ELSE IF Len(ids) = 0 THEN Throw("At least one dependency ID required")
        ELSE Ok([i \in DOMAIN ids |-> num(ids[i])])

\* parseDependencies(input): Ok(ids) or a throw at the first bad id
parseDependencies(input) ==
    LET ids  == [i \in DOMAIN SplitOn(input, ",") |-> Trim(SplitOn(input, ",")[i])]
        num(id) == ParseInt(Take(id, RunLen(id, 0, DigitChars)))
        bad  == {i \in DOMAIN ids : RunLen(ids[i], 0, DigitChars) = 0 \/ num(ids[i]) <= 0}
    IN  IF bad # {} THEN Throw("Invalid dependency ID")
        ELSE IF Len(ids) = 0 THEN Throw("At least one dependency ID required")
        ELSE Ok([i \in DOMAIN ids |-> num(ids[i])])

TokenValues(tokens) == [i \in DOMAIN tokens |-> tokens[i].value]

\* lines 62-97 with the consumed words left in the title
LeadingOfKeepWords(descTokens, firstDescWords, rec, date) ==
    LET title == Trim(Join(TokenValues(descTokens), <<" ">>))
    IN  IF ~rec.ok THEN rec
        ELSE IF rec.value # <<>>
        THEN Ok([recurrence |-> <<rec.value[1].pattern>>, date |-> <<>>, title |-> title])
        ELSE IF ~date.ok THEN date
        ELSE IF date.value # <<>>
        THEN Ok([recurrence |-> <<>>, date |-> date.value, title |-> title])
        ELSE Ok([recurrence |-> <<>>, date |-> <<>>, title |-> title])

\* lines 62-97, given the outcomes of parseRecurrence(firstDescWords) and of
\* parseDate(firstDescWords[0]), which is called only when the former is null
LeadingOf(descTokens, firstDescWords, rec, date) ==
    LET later      == TokenValues(Tail(descTokens))
        rest(n)    == LET remainingWords == Slice(firstDescWords, n)
                      IN  (IF Len(remainingWords) > 0
                           THEN <<Join(remainingWords, <<" ">>)>> ELSE <<>>) \o later
        title(descParts) == Trim(Join(descParts, <<" ">>))
    IN  IF ~rec.ok THEN rec
        ELSE IF rec.value # <<>>
        THEN Ok([recurrence |-> <<rec.value[1].pattern>>, date |-> <<>>,
                 title |-> title(rest(rec.value[1].tokensConsumed))])
        ELSE IF ~date.ok THEN date
        ELSE IF date.value # <<>>
        THEN Ok([recurrence |-> <<>>, date |-> date.value, title |-> title(rest(1))])
        ELSE Ok([recurrence |-> <<>>, date |-> <<>>,
                 title |-> title(TokenValues(descTokens))])

\* lines 53-98: the recurrence or date at the start of the first description
\* token, and the title.  Ok([recurrence, date, title]) or a throw
ExtractLeading(tokens, referenceDate, clock) ==
    LET descTokens == FindTokens(tokens, "DESCRIPTION")
        firstDescWords == SplitWs(descTokens[1].value)
    IN  IF Len(descTokens) = 0
        THEN Ok([recurrence |-> <<>>, date |-> <<>>, title |-> <<>>])
        ELSE LeadingOf(descTokens, firstDescWords,
                       parseRecurrence(firstDescWords, referenceDate, clock),
                       parseDate(firstDescWords[1], referenceDate, clock))

\* the value of the last token of a type: a scan that does not stop at the
\* first hit
LastValue(tokens, type) ==
    LET hits == FindTokens(tokens, type)
    IN  IF hits = <<>> THEN <<>> ELSE <<hits[Len(hits)].value>>

\* the value of the first token of a type, as an optional string
FirstValue(tokens, type) ==
    IF FindToken(tokens, type) = <<>> THEN <<>> ELSE <<FindToken(tokens, type)[1].value>>

\* an optional marker token's value put through its grammar: Ok(<<>>) when the
\* token is absent, Ok(<<v>>) or the grammar's throw when it is present
Optional(token, parsed) ==
    IF token = <<>> THEN Ok(<<>>)
    ELSE IF parsed.ok THEN Ok(<<parsed.value>>) ELSE parsed

\* lines 100-134 with every WINDOW and DEPENDENCIES token put through its grammar
ChurnTaskOfEveryToken(tokens, raw, lead, durationToken, window, deps) ==
    LET windows == FindTokens(tokens, "WINDOW")
        lists   == FindTokens(tokens, "DEPENDENCIES")
        badWindows == {i \in DOMAIN windows : ~parseTimeWindow(windows[i].value).ok}
        badLists   == {i \in DOMAIN lists : ~parseDependencies(lists[i].value).ok}
    IN  IF ~lead.ok THEN lead
        ELSE IF badWindows # {} THEN parseTimeWindow(windows[Min(badWindows)].value)
        ELSE IF badLists # {} THEN parseDependencies(lists[Min(badLists)].value)
        ELSE
            IF ~lead.ok THEN lead
            ELSE IF ~window.ok THEN window
            ELSE IF ~deps.ok THEN deps
            ELSE Ok([title |-> lead.value.title,
                     project |-> FirstValue(tokens, "PROJECT"),
                     tags |-> TokenValues(FindTokens(tokens, "TAG")),
                     duration |-> IF durationToken = <<>> THEN <<>>
                                  ELSE <<ParseDuration(durationToken[1])>>,
                     raw |-> raw,
                     date |-> lead.value.date,
                     bucket |-> FirstValue(tokens, "BUCKET"),
                     recurrence |-> lead.value.recurrence,
                     window |-> window.value,
                     dependencies |-> deps.value])

\* lines 100-134, given the outcome of lines 53-98 and of the window and
\* dependency grammars: the first throw in source order, or the task
ChurnTaskOf(tokens, raw, lead, durationToken, window, deps) ==
    IF ~lead.ok THEN lead
    ELSE IF ~window.ok THEN window
    ELSE IF ~deps.ok THEN deps
    ELSE Ok([title |-> lead.value.title,
             project |-> FirstValue(tokens, "PROJECT"),
             tags |-> TokenValues(FindTokens(tokens, "TAG")),
             duration |-> IF durationToken = <<>> THEN <<>>
                          ELSE <<ParseDuration(durationToken[1])>>,
             raw |-> raw,
             date |-> lead.value.date,
             bucket |-> FirstValue(tokens, "BUCKET"),
             recurrence |-> lead.value.recurrence,
             window |-> window.value,
             dependencies |-> deps.value])

\* the window and dependency tokens of lines 122-132, parsed
WindowOf(windowToken) == Optional(windowToken, parseTimeWindow(windowToken[1]))

DependenciesOf(depsToken) == Optional(depsToken, parseDependencies(depsToken[1]))

\* parseChurnTokens(tokens, raw, referenceDate): Ok(task) or a throw
parseChurnTokens(tokens, raw, referenceDate, clock) ==
    ChurnTaskOf(tokens, raw, ExtractLeading(tokens, referenceDate, clock),
                FirstValue(tokens, "DURATION"),
                WindowOf(FirstValue(tokens, "WINDOW")),
                DependenciesOf(FirstValue(tokens, "DEPENDENCIES")))

\* a truthy optional string: present and not ''
Truthy(opt) == opt # <<>> /\ opt[1] # <<>>

\* the fragments `+tag` of a tag list
TagParts(tags) == [i \in DOMAIN tags |-> <<"+">> \o tags[i]]

\* ids.join(',')
JoinIds(ids) == Join([i \in DOMAIN ids |-> NatToString(ids[i])], <<",">>)

\* formatChurnTask with `if (task.duration)` for the duration
formatChurnTaskTruthyDuration(task) ==
    LET parts ==
            (IF task.recurrence # <<>> THEN <<formatRecurrence(task.recurrence[1])>> ELSE <<>>)
         \o (IF task.date # <<>> /\ task.recurrence = <<>>
             THEN <<formatDate(task.date[1])>> ELSE <<>>)
         \o (IF task.title # <<>> THEN <<task.title>> ELSE <<>>)
         \o (IF Truthy(task.project) THEN <<<<"@">> \o task.project[1]>> ELSE <<>>)
         \o TagParts(task.tags)
         \o (IF task.duration # <<>> /\ task.duration[1] # 0
             THEN <<<<"~">> \o FormatDuration(task.duration[1])>> ELSE <<>>)
         \o (IF Truthy(task.bucket) THEN <<<<"$">> \o task.bucket[1]>> ELSE <<>>)
         \o (IF task.window # <<>>
             THEN <<WindowPrefix \o formatTimeWindow(task.window[1])>> ELSE <<>>)
         \o (IF task.dependencies # <<>> /\ Len(task.dependencies[1]) > 0
             THEN <<AfterPrefix \o JoinIds(task.dependencies[1])>> ELSE <<>>)
    IN  Join(parts, <<" ">>)

\* formatChurnTask
formatChurnTask(task) ==
    LET parts ==
            (IF task.recurrence # <<>> THEN <<formatRecurrence(task.recurrence[1])>> ELSE <<>>)
         \o (IF task.date # <<>> /\ task.recurrence = <<>>
             THEN <<formatDate(task.date[1])>> ELSE <<>>)
         \o (IF task.title # <<>> THEN <<task.title>> ELSE <<>>)
         \o (IF Truthy(task.project) THEN <<<<"@">> \o task.project[1]>> ELSE <<>>)
         \o TagParts(task.tags)
         \o (IF task.duration # <<>>
             THEN <<<<"~">> \o FormatDuration(task.duration[1])>> ELSE <<>>)
         \o (IF Truthy(task.bucket) THEN <<<<"$">> \o task.bucket[1]>> ELSE <<>>)
         \o (IF task.window # <<>>
             THEN <<WindowPrefix \o formatTimeWindow(task.window[1])>> ELSE <<>>)
         \o (IF task.dependencies # <<>> /\ Len(task.dependencies[1]) > 0
             THEN <<AfterPrefix \o JoinIds(task.dependencies[1])>> ELSE <<>>)
    IN  Join(parts, <<" ">>)

(***************************************************************************)
(* tt mode (modes/tt.ts)                                                   *)
(***************************************************************************)
\* parseTimestamp that refuses an hour above 23 or a minute above 59
parseTimestampInRange(timestamp, clock) ==
    LET trimmed == Trim(timestamp)
        dlen    == IF IsoDateLen(trimmed) = 10 THEN 10 + RunLen(trimmed, 10, SpaceChars) ELSE 0
        dated   == dlen > 10 /\ TimeLen(trimmed, dlen) > 0
                   /\ dlen + TimeLen(trimmed, dlen)
                      + SecondsLen(trimmed, dlen + TimeLen(trimmed, dlen)) = Len(trimmed)
        from    == IF dated THEN dlen ELSE 0
        t       == TimeLen(trimmed, from)
        hour    == ParseInt(SubSeq(trimmed, from + 1, from + t - 3))
        minute  == ParseInt(SubSeq(trimmed, from + t - 1, from + t))
        second  == IF SecondsLen(trimmed, from + t) = 3
                   THEN ParseInt(SubSeq(trimmed, from + t + 2, from + t + 3)) ELSE 0
    IN  IF hour > MaxHourOfDay \/ minute > MaxMinuteOfHour
        THEN Throw("Invalid timestamp format")
        ELSE IF dated
        THEN Ok(MakeDate(ParseInt(SubSeq(trimmed, 1, 4)), ParseInt(SubSeq(trimmed, 6, 7)),
                         ParseInt(SubSeq(trimmed, 9, 10)), hour, minute, second))
        ELSE IF t > 0 /\ t + SecondsLen(trimmed, t) = Len(trimmed)
        THEN Ok(MakeDate(clock.year, clock.month, clock.day, hour, minute, second))
        ELSE Throw("Invalid timestamp format")

\* parseTimestamp(timestamp): a time-only stamp takes the date of `new Date()`
parseTimestamp(timestamp, clock) ==
    LET trimmed == Trim(timestamp)
        dlen    == IF IsoDateLen(trimmed) = 10 THEN 10 + RunLen(trimmed, 10, SpaceChars) ELSE 0
        dated   == dlen > 10 /\ TimeLen(trimmed, dlen) > 0
                   /\ dlen + TimeLen(trimmed, dlen)
                      + SecondsLen(trimmed, dlen + TimeLen(trimmed, dlen)) = Len(trimmed)
        from    == IF dated THEN dlen ELSE 0
        t       == TimeLen(trimmed, from)
        hour    == ParseInt(SubSeq(trimmed, from + 1, from + t - 3))
        minute  == ParseInt(SubSeq(trimmed, from + t - 1, from + t))
        second  == IF SecondsLen(trimmed, from + t) = 3
                   THEN ParseInt(SubSeq(trimmed, from + t + 2, from + t + 3)) ELSE 0
    IN  IF dated
        THEN Ok(MakeDate(ParseInt(SubSeq(trimmed, 1, 4)), ParseInt(SubSeq(trimmed, 6, 7)),
                         ParseInt(SubSeq(trimmed, 9, 10)), hour, minute, second))
        ELSE IF t > 0 /\ t + SecondsLen(trimmed, t) = Len(trimmed)
        THEN Ok(MakeDate(clock.year, clock.month, clock.day, hour, minute, second))
        ELSE Throw("Invalid timestamp format")

\* lines 22-88, given the outcome of parseTimestamp on the timestamp token
TTTaskOf(tokens, raw, timestamp) ==
    LET durationToken == FirstValue(tokens, "DURATION")
        explicitDurationToken == FirstValue(tokens, "EXPLICIT_DURATION")
        priorityToken == FirstValue(tokens, "PRIORITY")
    IN  IF ~timestamp.ok THEN timestamp
        ELSE Ok([title |-> Trim(Join(TokenValues(FindTokens(tokens, "DESCRIPTION")), <<" ">>)),
                 project |-> FirstValue(tokens, "PROJECT"),
                 tags |-> TokenValues(FindTokens(tokens, "TAG")),
                 duration |-> IF durationToken = <<>> THEN <<>>
                              ELSE <<ParseDuration(durationToken[1])>>,
                 raw |-> raw,
                 timestamp |-> timestamp.value,
                 priority |-> IF priorityToken = <<>> THEN <<>>
                              ELSE <<ParseInt(priorityToken[1])>>,
                 explicitDuration |-> IF explicitDurationToken = <<>> THEN <<>>
                                      ELSE <<ParseDuration(explicitDurationToken[1])>>,
                 remark |-> FirstValue(tokens, "REMARK"),
                 state |-> IF FindToken(tokens, "END_MARKER") # <<>> THEN <<"end">>
                           ELSE IF FindToken(tokens, "PAUSE_MARKER") # <<>> THEN <<"pause">>
                           ELSE IF FindToken(tokens, "ABANDON_MARKER") # <<>> THEN <<"abandon">>
                           ELSE <<>>,
                 stateSuffix |-> FirstValue(tokens, "STATE_SUFFIX"),
                 resumeMarker |-> FirstValue(tokens, "RESUME_MARKER")])

\* the timestamp token of lines 22-25, parsed
TimestampOf(timestampToken, clock) ==
    Optional(timestampToken, parseTimestamp(timestampToken[1], clock))

\* parseTTTokens(tokens, raw): Ok(task) or a throw
parseTTTokens(tokens, raw, clock) ==
    TTTaskOf(tokens, raw, TimestampOf(FirstValue(tokens, "TIMESTAMP"), clock))

\* the text of a state: 'end' | 'pause' | 'abandon'
StateText(state) ==
    IF state = "end" THEN <<"e", "n", "d">> ELSE IF state = "pause" THEN <<"p", "a", "u", "s", "e">> ELSE <<"a", "b", "a", "n", "d", "o", "n">>

\* formatTTTask
formatTTTask(task) ==
    LET parts ==
            (IF task.timestamp # <<>>
             THEN <<PadStart2(NatToString(task.timestamp[1].hours)) \o <<":">>
                    \o PadStart2(NatToString(task.timestamp[1].minutes))>>
             ELSE <<>>)
         \o (IF Truthy(task.resumeMarker) THEN <<<<"@">> \o task.resumeMarker[1]>>
             ELSE IF task.state # <<>> THEN <<<<"@">> \o StateText(task.state[1])>>
             ELSE <<>>)
         \o (IF task.title # <<>> THEN <<task.title>> ELSE <<>>)
         \o (IF Truthy(task.project) THEN <<<<"@">> \o task.project[1]>> ELSE <<>>)
         \o TagParts(task.tags)
         \o (IF task.duration # <<>>
             THEN <<<<"~">> \o FormatDurationValue(task.duration[1])>> ELSE <<>>)
         \o (IF task.explicitDuration # <<>>
             THEN <<<<"(">> \o FormatDurationValue(task.explicitDuration[1]) \o <<")">>>>
             ELSE <<>>)
         \o (IF task.priority # <<>>
             THEN <<<<"^">> \o NatToString(task.priority[1])>> ELSE <<>>)
         \o (IF Truthy(task.stateSuffix) THEN <<<<"-", ">">> \o task.stateSuffix[1]>>
             ELSE <<>>)
         \o (IF Truthy(task.remark) THEN <<<<"#", " ">> \o task.remark[1]>> ELSE <<>>)
    IN  Join(parts, <<" ">>)


(***************************************************************************)
(* The facade (parser.ts)                                                  *)
(***************************************************************************)
\* the emptiness test made on the input as given, not on the trimmed input
tokenizeUntrimmedTest(input, mode) ==
    IF Len(input) = 0 THEN Throw("Input cannot be empty")
    ELSE Ok(TokenizeTrimmed(Trim(input), mode))

\* tokenize(input, mode): Ok(tokens) or the empty-input throw (lines 26-30)
tokenize(input, mode) ==
    LET trimmed == Trim(input)
    IN  IF Len(trimmed) = 0 THEN Throw("Input cannot be empty")
        ELSE Ok(TokenizeTrimmed(trimmed, mode))

\* no title check
AnyTitle(task) == task

\* line 67: a churn task needs a title
RequireTitle(task) ==
    IF task.ok /\ task.value.title = <<>> THEN Throw("Task title is required") ELSE task

\* lines 57-70: the tokens, then the extractor of the mode
ParseTrimmed(toks, trimmed, mode, referenceDate, clock) ==
    IF ~toks.ok THEN toks
    ELSE IF mode = "tt" THEN parseTTTokens(toks.value, trimmed, clock)
    ELSE RequireTitle(parseChurnTokens(toks.value, trimmed, referenceDate, clock))

\* TaskParser.parse(input) of a parser built with {mode, referenceDate}, run
\* when `new Date()` is `clock`: Ok(task) or a throw
TaskParserParse(input, mode, referenceDate, clock) ==
    IF Len(input) = 0 \/ Len(Trim(input)) = 0
    THEN Throw("Task description cannot be empty")
    ELSE ParseTrimmed(tokenize(Trim(input), mode), Trim(input), mode, referenceDate, clock)

\* TaskParser.format(task)
TaskParserFormat(task, mode) ==
    IF mode = "tt" THEN formatTTTask(task) ELSE formatChurnTask(task)


(***************************************************************************)
(* The state machine: a caller holds a parser (mode, referenceDate) and a  *)
(* line of text, and calls tokenize, parse, format, then parses and        *)
(* formats the formatted text again.  `now` is the wall clock.  `arg` is   *)
(* the text of a sub-grammar: the caller hands it to the grammar's         *)
(* exported function directly, and writes it into the line as a marker.    *)
(* A variable that holds the outcome of a call is <<>> until the call is   *)
(* made.                                                                   *)
(***************************************************************************)
VARIABLES mode, referenceDate, now, input, arg, pc, tokens, task, formatted, task2,
          formatted2, result

vars == <<mode, referenceDate, now, input, arg, pc, tokens, task, formatted, task2,
          formatted2, result>>

\* what the caller holds and no call changes
held == <<mode, referenceDate, now, input, arg>>

\* Wednesday 2025-01-15, 10:30 local time
Clocks == {[year |-> 2025, month |-> 1, day |-> 15, hours |-> 10, minutes |-> 30,
            seconds |-> 0]}

\* Monday 2025-02-03
RefDate == [year |-> 2025, month |-> 2, day |-> 3, hours |-> 0, minutes |-> 0, seconds |-> 0]

\* no call made yet
NoCalls ==
    /\ pc = "ready"
    /\ tokens = <<>>
    /\ task = <<>>
    /\ formatted = <<>>
    /\ task2 = <<>>
    /\ formatted2 = <<>>
    /\ result = <<>>

\* a parser of one of `modes` with one of the reference dates `refs`, and one
\* of the lines `inputs`
InitWith(modes, refs, inputs) ==
    /\ mode \in modes
    /\ referenceDate \in refs
    /\ now \in Clocks
    /\ input \in inputs
    /\ arg = <<>>
    /\ NoCalls

\* tokenize(input, mode)
Tokenize ==
    /\ pc = "ready"
    /\ tokens' = <<tokenize(input, mode)>>
    /\ pc' = "tokenized"
    /\ UNCHANGED <<held, task, formatted, task2, formatted2, result>>

\* parser.parse(input)
Parse ==
    /\ pc = "tokenized"
    /\ task' = <<TaskParserParse(input, mode, referenceDate, now)>>
    /\ pc' = IF task'[1].ok THEN "parsed" ELSE "failed"
    /\ UNCHANGED <<held, tokens, formatted, task2, formatted2, result>>

\* parser.format(task)
Format ==
    /\ pc = "parsed"
    /\ formatted' = <<TaskParserFormat(task[1].value, mode)>>
    /\ pc' = "formatted"
    /\ UNCHANGED <<held, tokens, task, task2, formatted2, result>>

\* parser.parse(formatted)
Reparse ==
    /\ pc = "formatted"
    /\ task2' = <<TaskParserParse(formatted[1], mode, referenceDate, now)>>
    /\ pc' = "reparsed"
    /\ UNCHANGED <<held, tokens, task, formatted, formatted2, result>>

\* parser.format(parser.parse(formatted))
Reformat ==
    /\ pc = "reparsed"
    /\ task2[1].ok
    /\ formatted2' = <<TaskParserFormat(task2[1].value, mode)>>
    /\ pc' = "done"
    /\ UNCHANGED <<held, tokens, task, formatted, task2, result>>

Next == Tokenize \/ Parse \/ Format \/ Reparse \/ Reformat

(***************************************************************************)
(* Lines of text                                                           *)
(***************************************************************************)
\* the longest line, in words
MaxWords == 3

\* the lines of at most n words of `lexicon`, single-spaced
Lines(lexicon, n) ==
    {Join(ws, <<" ">>) : ws \in UNION {[1..k -> lexicon] : k \in 0..n}}

\* every way to pick one element of each set of a sequence of sets of
\* fragments, the picks joined by single spaces (<<>> is "nothing here")
RECURSIVE Phrases(_)
Phrases(slots) ==
    IF Len(slots) = 0 THEN {<<>>}
    ELSE {IF a = <<>> THEN b ELSE IF b = <<>> THEN a ELSE a \o <<" ">> \o b :
             a \in slots[1], b \in Phrases(Tail(slots))}

\* the words of a line
Words(line) == SplitWs(Trim(line))

\* a general lexicon: titles, date and recurrence words, shared markers and
\* the markers of both modes
Lexicon ==
    { <<"T", "a", "s", "k">>, <<"t", "o", "d", "a", "y">>, <<"d", "a", "i", "l", "y">>, <<"@", "p">>, <<"@", "e", "n", "d">>, <<"+", "a">>, <<"~", "1", "h">>, <<"^", "3">>, <<"(", "3", "0", "m", ")">>,
      <<"#">>, <<"0", "9", ":", "0", "0">>, <<"$", "x">>, <<"w", "i", "n", "d", "o", "w", ":", "0", "9", ":", "0", "0", "-", "1", "7", ":", "0", "0">>, <<"a", "f", "t", "e", "r", ":", "1">>, <<"-", ">", "c", "o", "m", "p", "l", "e", "t", "e", "d">> }

Init == InitWith(ParserMode, {<<>>}, Lines(Lexicon, MaxWords))

Spec == Init /\ [][Next]_vars

(***************************************************************************)
(* Canonical task-manager lines: an optional leading ISO date or           *)
(* recurrence prefix (with an optional zero-padded time), a title of plain *)
(* words, then @project, +tag..., ~duration, $bucket, window:, after: in   *)
(* that order, single-spaced.                                              *)
(***************************************************************************)
\* the most tags of a canonical line
MaxTags == 1

\* ISO dates: an ordinary day, a leap day, and a day of the first millennium
CanonDates == { <<"2", "0", "2", "5", "-", "0", "3", "-", "1", "0">>, <<"2", "0", "2", "4", "-", "0", "2", "-", "2", "9">>, <<"0", "9", "9", "9", "-", "0", "3", "-", "1", "0">> }

CanonRecurrences ==
    << <<"d", "a", "i", "l", "y">>, <<"w", "e", "e", "k", "l", "y">>, <<"m", "o", "n", "t", "h", "l", "y">>, <<"e", "v", "e", "r", "y", " ", "m", "o", "n", "d", "a", "y">>, <<"e", "v", "e", "r", "y", " ", "s", "u", "n", "d", "a", "y">>, <<"e", "v", "e", "r", "y", " ", "2", "w">>,
      <<"e", "v", "e", "r", "y", " ", "1", "0", "d">>, <<"a", "f", "t", "e", "r", " ", "3", "d">>, <<"a", "f", "t", "e", "r", " ", "1", "m">> >>

CanonTimes == { <<"0", "9", ":", "0", "0">>, <<"2", "3", ":", "5", "9">> }

\* nothing, a date, a recurrence, or a recurrence with a time of day
CanonPrefixes ==
    {<<>>} \cup CanonDates \cup Range(CanonRecurrences)
    \cup {r \o <<" ">> \o t : r \in {CanonRecurrences[i] : i \in {1, 4, 6, 8}},
                                t \in CanonTimes}

CanonTitles == { <<"T", "a", "s", "k">>, <<"C", "a", "l", "l", " ", "m", "o", "m", " ", "t", "o", "d", "a", "y">> }

\* the sequences of at most n elements of S, joined by single spaces
Runs(S, n) == {Join(ws, <<" ">>) : ws \in UNION {[1..k -> S] : k \in 0..n}}

ChurnCanonLines ==
    Phrases(<< CanonPrefixes, CanonTitles, {<<>>, <<"@", "m", "y", "-", "p", "r", "o", "j", "_", "2">>},
               Runs({ <<"+", "a">>, <<"+", "b", "-", "1">> }, MaxTags),
               {<<>>, <<"~", "2", "h">>, <<"~", "3", "0", "m">>, <<"~", "1", "h", "3", "0", "m">>},
               {<<>>, <<"$", "x">>},
               {<<>>, <<"w", "i", "n", "d", "o", "w", ":", "0", "9", ":", "0", "0", "-", "1", "7", ":", "0", "0">>},
               {<<>>, <<"a", "f", "t", "e", "r", ":", "1", "0", ",", "2">>} >>)

InitChurnCanon == InitWith({"churn"}, {<<>>}, ChurnCanonLines)

SpecChurnCanon == InitChurnCanon /\ [][Next]_vars

\* C1: in churn mode, formatting the parse of a canonical line gives the
\* line back: format(parse(s)) = s.
C1_ChurnRoundTrip ==
    pc \in {"failed", "formatted"} => (pc = "formatted" /\ formatted[1] = input)

\* the same, over the canonical lines whose date has a four-digit year value
C1_ChurnRoundTripFrom1000 ==
    (pc \in {"failed", "formatted"} /\ ~StartsWith(input, <<"0">>))
        => (pc = "formatted" /\ formatted[1] = input)

(***************************************************************************)
(* Canonical time-tracker lines: a timestamp, an optional state or resume  *)
(* marker, a title, then @project, +tag..., ~duration, (explicit           *)
(* duration), ^priority, ->state-suffix, # remark in that order.           *)
(***************************************************************************)
\* the two accepted forms: zero-padded HH:MM, and YYYY-MM-DD HH:MM
CanonTimestamps == { <<"0", "9", ":", "0", "0">>, <<"2", "3", ":", "5", "9">>, <<"2", "0", "2", "5", "-", "0", "1", "-", "1", "0", " ", "0", "9", ":", "0", "0">> }

CanonMarkers == { <<>>, <<"@", "e", "n", "d">>, <<"@", "p", "a", "u", "s", "e">>, <<"@", "a", "b", "a", "n", "d", "o", "n">>, <<"@", "r", "e", "s", "u", "m", "e">>, <<"@", "p", "r", "e", "v">>, <<"@", "5">> }

TTCanonLines ==
    Phrases(<< CanonTimestamps, CanonMarkers, CanonTitles, {<<>>, <<"@", "r", "e", "l", "a", "y">>},
               Runs({ <<"+", "a">>, <<"+", "b", "-", "1">> }, MaxTags),
               {<<>>, <<"~", "1", "h", "3", "0", "m">>},
               {<<>>, <<"(", "4", "5", "m", ")">>},
               {<<>>, <<"^", "3">>},
               {<<>>, <<"-", ">", "c", "o", "m", "p", "l", "e", "t", "e", "d">>},
               {<<>>, <<"#", " ", "I", "m", "p", "o", "r", "t", "a", "n", "t", " ", "n", "o", "t", "e", " ", "@", "x">>} >>)

InitTTCanon == InitWith({"tt"}, {<<>>}, TTCanonLines)

SpecTTCanon == InitTTCanon /\ [][Next]_vars

\* C2: in tt mode, formatting the parse of a canonical line gives the line
\* back, for both forms of the leading timestamp: format(parse(s)) = s.
C2_TTRoundTrip ==
    pc \in {"failed", "formatted"} => (pc = "formatted" /\ formatted[1] = input)

\* the same, over the canonical lines whose timestamp is the time alone
C2_TTRoundTripTimeOnly ==
    (pc \in {"failed", "formatted"} /\ TimeLen(input, 0) = 5)
        => (pc = "formatted" /\ formatted[1] = input)

(***************************************************************************)
(* Claims about lines of words of the general lexicon (Spec)               *)
(***************************************************************************)
\* C3: in both modes, the formatted text of a line that parses is itself a
\* line that parses, and formatting its parse gives the same text again:
\* format(parse(format(parse(s)))) = format(parse(s)).
C3_IdempotentFormat ==
    /\ pc = "reparsed" => task2[1].ok
    /\ pc = "done" => formatted2[1] = formatted[1]

(***************************************************************************)
(* Lines with repeated markers: a title, then marker words, two values of  *)
(* each kind                                                               *)
(***************************************************************************)
SharedMarkers == { <<"@", "p">>, <<"@", "q">>, <<"+", "a">>, <<"+", "b">>, <<"~", "1", "h">>, <<"~", "3", "0", "m">> }

ChurnMarkers == { <<"$", "x">>, <<"$", "y">>, <<"w", "i", "n", "d", "o", "w", ":", "0", "9", ":", "0", "0", "-", "1", "7", ":", "0", "0">>, <<"w", "i", "n", "d", "o", "w", ":", "2", "2", ":", "0", "0", "-", "0", "6", ":", "0", "0">>,
                  <<"a", "f", "t", "e", "r", ":", "1">>, <<"a", "f", "t", "e", "r", ":", "2", ",", "3">> }

\* a title followed by the lines of at most n of the marker words
Marked(markers, n) == Phrases(<< { <<"T", "a", "s", "k">> }, Lines(markers, n) >>)

InitDuplicates ==
    \/ InitWith({"churn"}, {<<>>}, Marked(SharedMarkers \cup ChurnMarkers, MaxWords))
    \/ InitWith({"tt"}, {<<>>}, Marked(SharedMarkers, MaxWords))

SpecDuplicates == InitDuplicates /\ [][Next]_vars

\* the words of a line that begin with `prefix`, in the order written, without
\* the prefix
Bodies(line, prefix) ==
    LET ws == SelectSeq(Words(line), LAMBDA w : StartsWith(w, prefix))
    IN  [i \in DOMAIN ws |-> Slice(ws[i], Len(prefix))]

\* the first of them, if any
FirstBody(line, prefix) ==
    IF Bodies(line, prefix) = <<>> THEN <<>> ELSE <<Bodies(line, prefix)[1]>>

\* C4: when a marker kind occurs several times in a line, project and
\* duration (and in churn mode bucket, window and dependencies) have the
\* value of the first occurrence in the line, and tags has the value of every
\* +tag in the order written, duplicates kept.
C4_FirstWins ==
    pc = "parsed" =>
        LET t == task[1].value
        IN  /\ t.project = FirstBody(input, <<"@">>)
            /\ t.tags = Bodies(input, <<"+">>)
            /\ t.duration = [i \in DOMAIN FirstBody(input, <<"~">>) |->
                                ParseDuration(FirstBody(input, <<"~">>)[i])]
            /\ mode = "churn" =>
                /\ t.bucket = FirstBody(input, <<"$">>)
                /\ [i \in DOMAIN t.window |-> formatTimeWindow(t.window[i])]
                       = FirstBody(input, WindowPrefix)
                /\ [i \in DOMAIN t.dependencies |-> JoinIds(t.dependencies[i])]
                       = FirstBody(input, AfterPrefix)

\* a churn line with two different projects and the same tag twice has been
\* parsed: the first project is kept, both tags are
C4_Witness ==
    /\ pc = "parsed"
    /\ mode = "churn"
    /\ Len(Bodies(input, <<"@">>)) = 2
    /\ Bodies(input, <<"@">>)[1] # Bodies(input, <<"@">>)[2]
    /\ task[1].value.project = <<Bodies(input, <<"@">>)[1]>>

(***************************************************************************)
(* Churn lines with words that begin like a marker and are none            *)
(***************************************************************************)
\* a marker prefix with a body its pattern does not match
SoftWords ==
    { <<"~", "2", ".", "5", "h">>, <<"~", "h">>, <<"a", "f", "t", "e", "r", ":", "a", "b", "c">>, <<"a", "f", "t", "e", "r", ":", "-", "1">>, <<"w", "i", "n", "d", "o", "w", ":", "9", "-", "5">>, <<"$", "1">>, <<"@">> }

\* words around them: a title, a date, a recurrence and three valid markers
PlainAndValid == { <<"T", "a", "s", "k">>, <<"t", "o", "d", "a", "y">>, <<"d", "a", "i", "l", "y">>, <<"@", "p">>, <<"~", "1", "h">>, <<"a", "f", "t", "e", "r", ":", "2">> }

InitFallback == InitWith({"churn"}, {<<>>}, Lines(SoftWords \cup PlainAndValid, MaxWords))

SpecFallback == InitFallback /\ [][Next]_vars

TTOnlyWords == { <<"0", "9", ":", "0", "0">>, <<"^", "3">>, <<"(", "3", "0", "m", ")">>, <<"#">>, <<"-", ">", "c", "o", "m", "p", "l", "e", "t", "e", "d">> }

\* what only churn mode reads as markers
ChurnOnlyWords == { <<"$", "x">>, <<"w", "i", "n", "d", "o", "w", ":", "0", "9", ":", "0", "0", "-", "1", "7", ":", "0", "0">>, <<"a", "f", "t", "e", "r", ":", "1">> }

InitIsolation ==
    InitWith(ParserMode, {<<>>},
             Lines(TTOnlyWords \cup ChurnOnlyWords \cup { <<"T", "a", "s", "k">>, <<"@", "p">>, <<"@", "e", "n", "d">> },
                   MaxWords))

SpecIsolation == InitIsolation /\ [][Next]_vars

TTOnlyTypes ==
    {"TIMESTAMP", "PRIORITY", "EXPLICIT_DURATION", "REMARK", "END_MARKER", "PAUSE_MARKER",
     "ABANDON_MARKER", "RESUME_MARKER", "STATE_SUFFIX"}

ChurnOnlyTypes == {"BUCKET", "WINDOW", "DEPENDENCIES"}

\* C6: tokenize in churn mode emits no token of a tt-only kind and tokenize in
\* tt mode none of a churn-only kind; the words of the other mode's markers
\* stay in the title (in tt mode, in the remark when they come after the
\* remark marker), and in churn mode @end is an ordinary project.
C6_ModeIsolation ==
    LET ws == Words(input)
        types == {tokens[1].value[i].type : i \in DOMAIN tokens[1].value}
        t  == task[1].value
        remarkAt == {i \in DOMAIN ws : ws[i] = <<"#">> /\ i < Len(ws)}
    IN  /\ (pc # "ready" /\ tokens[1].ok) =>
              types \cap (IF mode = "churn" THEN TTOnlyTypes ELSE ChurnOnlyTypes) = {}
        /\ (pc = "parsed" /\ mode = "churn") =>
              /\ \A i \in DOMAIN ws : ws[i] \in TTOnlyWords => ws[i] \in Range(SplitWs(t.title))
              /\ FirstBody(input, <<"@">>) = << <<"e", "n", "d">> >> => t.project = << <<"e", "n", "d">> >>
        /\ (pc = "parsed" /\ mode = "tt") =>
              \A i \in DOMAIN ws : ws[i] \in ChurnOnlyWords =>
                  IF \E j \in remarkAt : j < i
                  THEN ws[i] \in Range(SplitWs(t.remark[1]))
                  ELSE ws[i] \in Range(SplitWs(t.title))

\* a churn line with a leading time, a priority and @end has been parsed: the
\* time and the priority are title text and end is the project
C6_Witness ==
    /\ pc = "parsed"
    /\ mode = "churn"
    /\ input = <<"0", "9", ":", "0", "0", " ", "^", "3", " ", "@", "e", "n", "d">>
    /\ task[1].value.title = <<"0", "9", ":", "0", "0", " ", "^", "3">>
    /\ task[1].value.project = << <<"e", "n", "d">> >>

(***************************************************************************)
(* Blank lines, and lines of words that match no marker, with white space  *)
(* around them                                                             *)
(***************************************************************************)
\* the empty line and lines of white space
BlankLines == { <<>>, <<" ">>, <<" ", " ">>, <<"\t">>, <<" ", "\t", " ">> }

\* marker prefixes without a body, a plain word, and one marker
BareWords == { <<"x">>, <<"@">>, <<"+">>, <<"~">>, <<"$">>, <<"(">>, <<"-", ">">>, <<"a", "f", "t", "e", "r", ":">> }

\* a line as typed, or with white space before and after it
Padded(lines) == lines \cup {<<" ">> \o l \o <<"\t">> : l \in lines}

InitEmpty ==
    InitWith(ParserMode, {<<>>},
             BlankLines \cup Padded(Lines(BareWords \cup { <<"@", "p">>, <<"#">> }, MaxWords)))

SpecEmpty == InitEmpty /\ [][Next]_vars

\* a line with a character that is not white space
NonBlank(line) == \E i \in DOMAIN line : line[i] \notin SpaceChars

\* C7: parse raises the empty-input error exactly when the input is empty or
\* white space only; tokenize raises no error for any other input, in either
\* mode, and what matches no marker becomes description text.
C7_EmptyInputOnly ==
    LET ws == Words(input)
    IN  /\ pc # "ready" =>
              /\ tokens[1].ok <=> NonBlank(input)
              /\ ~tokens[1].ok => tokens[1].error = "Input cannot be empty"
              /\ (NonBlank(input) /\ Range(ws) \subseteq BareWords) =>
                    tokens[1].value = <<Token("DESCRIPTION", Join(ws, <<" ">>), 0)>>
        /\ pc \notin {"ready", "tokenized"} =>
              (task[1].error = "Task description cannot be empty" <=> ~NonBlank(input))

\* both calls have rejected a line of white space, each with its empty-input
\* error
C7_Witness ==
    /\ pc = "failed"
    /\ input = <<" ", "\t", " ">>
    /\ tokens[1].error = "Input cannot be empty"
    /\ task[1].error = "Task description cannot be empty"

(***************************************************************************)
(* Lines with and without a title                                          *)
(***************************************************************************)
\* churn: a title word, a date word, a recurrence word, and markers, one of
\* them with an id that is not valid
ChurnTitleWords ==
    { <<"T", "a", "s", "k">>, <<"t", "o", "d", "a", "y">>, <<"d", "a", "i", "l", "y">>, <<"@", "p", "r", "o", "j", "e", "c", "t">>, <<"+", "t", "a", "g">>, <<"~", "1", "h">>, <<"$", "x">>, <<"a", "f", "t", "e", "r", ":", "1">>,
      <<"a", "f", "t", "e", "r", ":", "0">> }

\* tt: a title word, a timestamp, a state marker and markers
TTTitleWords == { <<"T", "a", "s", "k">>, <<"1", "7", ":", "0", "0">>, <<"@", "e", "n", "d">>, <<"@", "p", "r", "o", "j", "e", "c", "t">>, <<"+", "t", "a", "g">>, <<"~", "1", "h">> }

InitTitle ==
    \/ InitWith({"churn"}, {<<>>}, Lines(ChurnTitleWords, MaxWords))
    \/ InitWith({"tt"}, {<<>>}, Lines(TTTitleWords, MaxWords))

SpecTitle == InitTitle /\ [][Next]_vars

\* the words of a line that are no marker words
PlainWords(line) ==
    SelectSeq(Words(line), LAMBDA w : w \in { <<"T", "a", "s", "k">>, <<"t", "o", "d", "a", "y">>, <<"d", "a", "i", "l", "y">>, <<"1", "7", ":", "0", "0">> })

MaxIds == 3

\* `Task`, perhaps after a date, with an after: marker whose list has 1 to
\* MaxIds ids, zero and zero-padded ids among them, perhaps followed by a
\* second marker
InitDeps ==
    /\ mode = "churn"
    /\ referenceDate = <<>>
    /\ now \in Clocks
    /\ arg \in {Join(ids, <<",">>) :
                  ids \in UNION {[1..k -> { <<"0">>, <<"1">>, <<"2">>, <<"1", "0">>, <<"0", "0", "7">> }] :
                                    k \in 1..MaxIds}}
    /\ input \in Phrases(<< {<<>>, <<"t", "o", "d", "a", "y">>}, { <<"T", "a", "s", "k">> }, {AfterPrefix \o arg},
                            {<<>>, <<"a", "f", "t", "e", "r", ":", "0">>, <<"a", "f", "t", "e", "r", ":", "5">>, <<"@", "p", "r", "o", "j", "e", "c", "t">>} >>)
    /\ NoCalls

SpecDeps == InitDeps /\ [][Next]_vars

\* C9: a churn line whose first after: marker lists the ids `arg` is
\* rejected when one of the listed ids is zero, and otherwise gives a record
\* whose dependencies are the listed integers, in the order written, at
\* least one of them.
C9_DependencyValidation ==
    LET listed == SplitOn(arg, ",")
        ids    == [i \in DOMAIN listed |-> ParseInt(listed[i])]
    IN  pc \in {"parsed", "failed"} =>
            IF \E i \in DOMAIN ids : ids[i] = 0
            THEN pc = "failed" /\ task[1].error = "Invalid dependency ID"
            ELSE /\ pc = "parsed"
                 /\ task[1].value.dependencies = <<ids>>
                 /\ Len(ids) >= 1

\* `Task after:10,2,007 after:0` has given the dependencies 10, 2, 7
C9_Witness ==
    /\ pc = "parsed"
    /\ input = <<"T", "a", "s", "k", " ", "a", "f", "t", "e", "r", ":", "1", "0", ",", "2", ",", "0", "0", "7", " ", "a", "f", "t", "e", "r", ":", "0">>
    /\ task[1].value.dependencies = << <<10, 2, 7>> >>

(***************************************************************************)
(* Time windows                                                            *)
(***************************************************************************)
\* a window H:MM-H:MM of hours and minutes in and out of range, handed to
\* parseTimeWindow and written into a churn line as a window: marker
InitWindow ==
    /\ mode = "churn"
    /\ referenceDate = <<>>
    /\ now \in Clocks
    /\ arg \in {h1 \o <<":">> \o m1 \o <<"-">> \o h2 \o <<":">> \o m2 :
                  h1 \in { <<"0">>, <<"0", "6">>, <<"9">>, <<"2", "2">>, <<"2", "3">>, <<"2", "4">>, <<"9", "9">> },
                  m1 \in { <<"0", "0">>, <<"5", "9">>, <<"6", "0">>, <<"9", "9">> },
                  h2 \in { <<"0">>, <<"0", "6">>, <<"9">>, <<"2", "2">>, <<"2", "3">>, <<"2", "4">>, <<"9", "9">> },
                  m2 \in { <<"0", "0">>, <<"5", "9">>, <<"6", "0">>, <<"9", "9">> }}
    /\ input = <<"T", "a", "s", "k", " ">> \o WindowPrefix \o arg
    /\ NoCalls

\* parseTimeWindow(arg)
CallParseTimeWindow ==
    /\ result = <<>>
    /\ arg # <<>>
    /\ result' = <<parseTimeWindow(arg)>>
    /\ UNCHANGED <<held, pc, tokens, task, formatted, task2, formatted2>>

NextWindow == CallParseTimeWindow \/ Next

SpecWindow == InitWindow /\ [][NextWindow]_vars

\* C10: parseTimeWindow, and churn parse of a line with the window as its
\* window: marker, throw when a half of the window has an hour above 23 or a
\* minute above 59, and otherwise give start and end as the two halves, the
\* hour padded with a zero to two digits, whether or not the end is after
\* the start.
C10_WindowValidation ==
    LET halves   == SplitOn(arg, "-")
        hour(i)  == SplitOn(halves[i], ":")[1]
        min(i)   == SplitOn(halves[i], ":")[2]
        bad      == \E i \in 1..2 : ParseInt(hour(i)) > 23 \/ ParseInt(min(i)) > 59
        padded(i) == (IF Len(hour(i)) = 1 THEN <<"0">> ELSE <<>>) \o hour(i) \o <<":">> \o min(i)
        expected == [start |-> padded(1), end |-> padded(2)]
    IN  /\ result # <<>> =>
              IF bad THEN ~result[1].ok
              ELSE result[1].ok /\ result[1].value = expected
        /\ pc \in {"parsed", "failed"} =>
              IF bad THEN pc = "failed"
              ELSE pc = "parsed" /\ task[1].value.window = <<expected>>

\* the window 22:00-06:00, whose end is before its start, is accepted by
\* both
C10_Witness ==
    /\ arg = <<"2", "2", ":", "0", "0", "-", "0", "6", ":", "0", "0">>
    /\ result # <<>>
    /\ result[1].ok
    /\ result[1].value = [start |-> <<"2", "2", ":", "0", "0">>, end |-> <<"0", "6", ":", "0", "0">>]
    /\ pc = "parsed"
    /\ task[1].value.window = <<result[1].value>>

(***************************************************************************)
(* Weekday names as dates                                                  *)
(***************************************************************************)
\* the reference dates are runs of this many days after a first day
MaxRefDays == 8

\* weekday names as written, with the day they name (0 = Sunday)
DayNamed ==
    { << <<"s", "u", "n", "d", "a", "y">>, 0 >>, << <<"m", "o", "n", "d", "a", "y">>, 1 >>, << <<"t", "u", "e", "s", "d", "a", "y">>, 2 >>, << <<"w", "e", "d", "n", "e", "s", "d", "a", "y">>, 3 >>,
      << <<"t", "h", "u", "r", "s", "d", "a", "y">>, 4 >>, << <<"f", "r", "i", "d", "a", "y">>, 5 >>, << <<"s", "a", "t", "u", "r", "d", "a", "y">>, 6 >>,
      << <<"S", "u", "n", "d", "a", "y">>, 0 >>, << <<"M", "O", "N", "D", "A", "Y">>, 1 >>, << <<"W", "e", "d", "n", "e", "s", "d", "a", "y">>, 3 >>, << <<"f", "R", "i", "D", "a", "Y">>, 5 >>,
      << <<"S", "a", "t", "u", "r", "d", "a", "y">>, 6 >> }

\* a weekday name handed to parseDate with a reference date, and written as
\* the first word of a churn line of a parser with that reference date; the
\* reference dates run over the end of February of a leap year and over the
\* end of a year, at midnight and late in the evening, and may be left out
InitDate ==
    /\ mode = "churn"
    /\ referenceDate \in
          {<<>>} \cup
          {<<MakeDate(first[1], first[2], first[3] + k, time[1], time[2], 0)>> :
              first \in {<<2024, 2, 24>>, <<2025, 12, 27>>}, k \in 0..MaxRefDays,
              time \in {<<0, 0>>, <<23, 59>>}}
    /\ now \in Clocks
    /\ arg \in {p[1] : p \in DayNamed}
    /\ input = arg \o <<" ", "T", "a", "s", "k">>
    /\ NoCalls

\* parseDate(arg, referenceDate)
CallParseDate ==
    /\ result = <<>>
    /\ arg # <<>>
    /\ result' = <<parseDate(arg, referenceDate, now)>>
    /\ UNCHANGED <<held, pc, tokens, task, formatted, task2, formatted2>>

NextDate == CallParseDate \/ Next

SpecDate == InitDate /\ [][NextDate]_vars

\* the day count of a date, and the reference day of the parser
DayNumber(date) == DaysFromCivil(date.year, date.month, date.day)

ReferenceDay == IF referenceDate = <<>> THEN now ELSE referenceDate[1]

\* `date` is at midnight on the named day, 1 to 7 days after the reference
\* day, and 7 days after it when the reference day is the named day
IsNextNamedDay(date, day) ==
    LET ahead == DayNumber(date) - DayNumber(ReferenceDay)
    IN  /\ date.hours = 0 /\ date.minutes = 0 /\ date.seconds = 0
        /\ (DayNumber(date) + 4) % 7 = day
        /\ ahead \in 1..7
        /\ (DayNumber(ReferenceDay) + 4) % 7 = day => ahead = 7
        /\ [year |-> date.year, month |-> date.month, day |-> date.day]
              = CivilFromDays(DayNumber(date))

\* C11: for every reference date and weekday name, parseDate returns the date
\* at midnight that falls on the named day and is 1 to 7 days after the
\* reference date: exactly 7 days after it when the reference date is on the
\* named day.  The date of a churn line that starts with the name is the same.
C11_NextWeekday ==
    LET day == (CHOOSE p \in DayNamed : p[1] = arg)[2]
    IN  /\ result # <<>> =>
              /\ result[1].ok
              /\ Len(result[1].value) = 1
              /\ IsNextNamedDay(result[1].value[1], day)
        /\ pc \in {"parsed", "failed"} =>
              /\ pc = "parsed"
              /\ Len(task[1].value.date) = 1
              /\ IsNextNamedDay(task[1].value.date[1], day)

\* `Wednesday` with the reference date Wednesday 2025-12-31, 23:59 gives
\* 2026-01-07
C11_Witness ==
    /\ arg = <<"W", "e", "d", "n", "e", "s", "d", "a", "y">>
    /\ referenceDate = <<[year |-> 2025, month |-> 12, day |-> 31, hours |-> 23,
                          minutes |-> 59, seconds |-> 0]>>
    /\ result # <<>>
    /\ result[1].value = <<[year |-> 2026, month |-> 1, day |-> 7, hours |-> 0,
                            minutes |-> 0, seconds |-> 0]>>
    /\ pc = "parsed"

(***************************************************************************)
(* Times of day and windows                                                *)
(***************************************************************************)
\* a churn line with a window between two of seven times of day, the start
\* written with one hour digit where it can be, and a time of day to look
\* for in the window of the parsed record
InitContain ==
    /\ mode = "churn"
    /\ referenceDate = <<>>
    /\ now \in Clocks
    /\ arg \in { <<"0", "0", ":", "0", "0">>, <<"7", ":", "5", "9">>, <<"0", "8", ":", "0", "0">>, <<"1", "2", ":", "0", "0">>, <<"1", "7", ":", "5", "9">>, <<"1", "8", ":", "0", "0">>, <<"2", "2", ":", "0", "0">>,
                 <<"2", "3", ":", "5", "9">> }
    /\ input \in {<<"T", "a", "s", "k", " ">> \o WindowPrefix \o start \o <<"-">> \o end :
                    start \in { <<"0", ":", "0", "0">>, <<"8", ":", "0", "0">>, <<"0", "9", ":", "0", "0">>, <<"1", "2", ":", "0", "0">>, <<"1", "8", ":", "0", "0">>, <<"2", "2", ":", "0", "0">>,
                                <<"2", "3", ":", "5", "9">> },
                    end \in { <<"0", "0", ":", "0", "0">>, <<"0", "8", ":", "0", "0">>, <<"0", "9", ":", "0", "0">>, <<"1", "2", ":", "0", "0">>, <<"1", "8", ":", "0", "0">>, <<"2", "2", ":", "0", "0">>,
                              <<"2", "3", ":", "5", "9">> }}
    /\ NoCalls

\* crossesMidnight(task.window)
CallCrossesMidnight ==
    /\ pc = "parsed"
    /\ result = <<>>
    /\ task[1].value.window # <<>>
    /\ result' = <<[call |-> "crossesMidnight",
                    returns |-> crossesMidnight(task[1].value.window[1])]>>
    /\ UNCHANGED <<held, pc, tokens, task, formatted, task2, formatted2>>

\* isTimeInWindow(arg, task.window)
CallIsTimeInWindow ==
    /\ pc = "parsed"
    /\ result = <<>>
    /\ task[1].value.window # <<>>
    /\ result' = <<[call |-> "isTimeInWindow",
                    returns |-> isTimeInWindow(arg, task[1].value.window[1])]>>
    /\ UNCHANGED <<held, pc, tokens, task, formatted, task2, formatted2>>

NextContain == CallCrossesMidnight \/ CallIsTimeInWindow \/ Next

SpecContain == InitContain /\ [][NextContain]_vars

\* the minutes since midnight of a time H:MM or HH:MM
MinutesOfDay(text) ==
    ParseInt(SplitOn(text, ":")[1]) * 60 + ParseInt(SplitOn(text, ":")[2])

\* C12: for a valid window and a valid time of day, crossesMidnight is true
\* exactly when the end is not after the start, and isTimeInWindow is
\* start <= t < end for a window that does not cross and t >= start or t < end
\* for one that does, so that a window with equal start and end holds every
\* time of day.
C12_WindowContainment ==
    result # <<>> =>
        LET window == SplitOn(Slice(input, Len(<<"T", "a", "s", "k", " ", "w", "i", "n", "d", "o", "w", ":">>)), "-")
            start  == MinutesOfDay(window[1])
            end    == MinutesOfDay(window[2])
            t      == MinutesOfDay(arg)
        IN  /\ result[1].returns.ok
            /\ result[1].call = "crossesMidnight" =>
                  (result[1].returns.value <=> end <= start)
            /\ result[1].call = "isTimeInWindow" =>
                  /\ end > start => (result[1].returns.value <=> (start <= t /\ t < end))
                  /\ end <= start => (result[1].returns.value <=> (t >= start \/ t < end))
                  /\ end = start => result[1].returns.value

\* 12:00 is found inside the window 9:00-09:00 of `Task window:09:00-09:00`
C12_Witness ==
    /\ input = <<"T", "a", "s", "k", " ", "w", "i", "n", "d", "o", "w", ":", "0", "9", ":", "0", "0", "-", "0", "9", ":", "0", "0">>
    /\ arg = <<"1", "2", ":", "0", "0">>
    /\ result # <<>>
    /\ result[1].call = "isTimeInWindow"
    /\ result[1].returns = Ok(TRUE)

\* 22:00 and 00:00 are found inside 18:00-08:00
C12_WitnessOvernight ==
    /\ input = <<"T", "a", "s", "k", " ", "w", "i", "n", "d", "o", "w", ":", "1", "8", ":", "0", "0", "-", "0", "8", ":", "0", "0">>
    /\ arg \in { <<"2", "2", ":", "0", "0">>, <<"0", "0", ":", "0", "0">> }
    /\ result # <<>>
    /\ result[1].call = "isTimeInWindow"
    /\ result[1].returns = Ok(TRUE)

(***************************************************************************)
(* Recurrence words                                                        *)
(***************************************************************************)
\* first words: the shorthands, `every`, `after`, weekday sets, and words
\* that start no recurrence
ShorthandWords == { <<"d", "a", "i", "l", "y">>, <<"W", "e", "e", "k", "l", "y">>, <<"M", "O", "N", "T", "H", "L", "Y">> }

EveryWords == { <<"e", "v", "e", "r", "y">>, <<"E", "v", "e", "r", "y">> }

AfterWords == { <<"a", "f", "t", "e", "r">>, <<"A", "F", "T", "E", "R">> }

\* weekday sets as written, with the days they name
DaySetNamed ==
    { << <<"w", "e", "e", "k", "d", "a", "y", "s">>, <<1, 2, 3, 4, 5>> >>, << <<"W", "E", "E", "K", "D", "A", "Y", "S">>, <<1, 2, 3, 4, 5>> >>,
      << <<"F", "r", "i", ",", "M", "o", "n", ",", "W", "e", "d">>, <<1, 3, 5>> >>, << <<"M", "O", "N", ",", "t", "u", "e", ",", "T", "h", "u">>, <<1, 2, 4>> >>,
      << <<"M", "o", "n", "d", "a", "y", ",", "W", "e", "d", "n", "e", "s", "d", "a", "y", ",", "F", "r", "i", "d", "a", "y">>, <<1, 3, 5>> >> }

OtherFirstWords == { <<"t", "o", "d", "a", "y">>, <<"2", "0", "2", "5", "-", "0", "1", "-", "1", "0">>, <<"d", "e", "p", "l", "o", "y">>, <<"m", "o", "n", "d", "a", "y">>, <<"2", "w">> }

\* later words: weekday names, intervals, an interval of zero, times of day,
\* times out of range and other words
DayWords == { <<"m", "o", "n", "d", "a", "y">>, <<"F", "r", "i", "d", "a", "y">> }

IntervalWords == { <<"2", "w">>, <<"3", "0", "d">>, <<"1", "M">> }

ZeroIntervalWords == { <<"0", "d">>, <<"0", "0", "w">> }

TimeWords == { <<"0", "9", ":", "0", "0">>, <<"9", ":", "3", "0">>, <<"2", "3", ":", "5", "9">> }

NoTimeWords == { <<"2", "4", ":", "0", "0">>, <<"9", ":", "6", "0">>, <<"a", "p", "p">>, <<"2", "x">> }

\* the word list `arg` (words joined by spaces) handed to parseRecurrence
\* with or without a reference date, and written at the start of a churn
\* line
InitRecurrence ==
    /\ mode = "churn"
    /\ referenceDate \in {<<>>, <<RefDate>>}
    /\ now \in Clocks
    /\ arg \in Phrases(<< {<<>>} \cup ShorthandWords \cup EveryWords \cup AfterWords
                             \cup {p[1] : p \in DaySetNamed} \cup OtherFirstWords,
                          {<<>>} \cup DayWords \cup IntervalWords \cup ZeroIntervalWords
                             \cup TimeWords \cup NoTimeWords,
                          {<<>>} \cup TimeWords \cup NoTimeWords >>)
    /\ input = arg \o <<" ", "T", "a", "s", "k">>
    /\ NoCalls

\* the words of `arg`
ArgWords == IF arg = <<>> THEN <<>> ELSE SplitOn(arg, " ")

\* parseRecurrence(words of arg, referenceDate)
CallParseRecurrence ==
    /\ result = <<>>
    /\ result' = <<parseRecurrence(ArgWords, referenceDate, now)>>
    /\ UNCHANGED <<held, pc, tokens, task, formatted, task2, formatted2>>

NextRecurrence == CallParseRecurrence \/ Next

SpecRecurrence == InitRecurrence /\ [][NextRecurrence]_vars

\* the continuation of `every` or `after` in ArgWords is not valid
InvalidContinuation ==
    \/ Len(ArgWords) < 2
    \/ /\ ArgWords[1] \in EveryWords
       /\ ArgWords[2] \notin DayWords \cup IntervalWords
    \/ /\ ArgWords[1] \in AfterWords
       /\ ArgWords[2] \notin IntervalWords

\* C13: parseRecurrence returns null, without an error, for an empty word
\* list and for a first word that is no recurrence keyword (a date word
\* among them), and throws for a first word `every` or `after` whose
\* continuation is not valid: no next word, a next word that is neither a
\* weekday name nor N(d|w|m) for `every`, that is not N(d|w|m) for `after`,
\* or an interval with N = 0; it returns a pattern otherwise.
C13_NullOrError ==
    (result # <<>> /\ (ArgWords = <<>> \/ ArgWords[1] \notin {p[1] : p \in DaySetNamed})) =>
        IF \/ ArgWords = <<>>
           \/ ArgWords[1] \notin ShorthandWords \cup EveryWords \cup AfterWords
        THEN result[1] = Ok(<<>>)
        ELSE IF ArgWords[1] \in EveryWords \cup AfterWords /\ InvalidContinuation
        THEN ~result[1].ok
        ELSE result[1].ok /\ result[1].value # <<>>

\* `after monday` has thrown
C13_Witness ==
    /\ arg = <<"a", "f", "t", "e", "r", " ", "m", "o", "n", "d", "a", "y">>
    /\ result # <<>>
    /\ ~result[1].ok

\* C14: when the first word is `weekdays` or a comma-joined list of weekday
\* names or three-letter abbreviations, in any case, parseRecurrence returns
\* a calendar weekly pattern whose daysOfWeek is the named days in ascending
\* order, and consumes 1 word, or 2 with a time of day after it.
C14_WeekdaySets ==
    (result # <<>> /\ ArgWords # <<>> /\ ArgWords[1] \in {p[1] : p \in DaySetNamed}) =>
        /\ result[1].ok
        /\ result[1].value # <<>>
        /\ LET found == result[1].value[1]
               days  == (CHOOSE p \in DaySetNamed : p[1] = ArgWords[1])[2]
           IN  /\ found.pattern.mode = "calendar"
               /\ found.pattern.type = "weekly"
               /\ "daysOfWeek" \in DOMAIN found.pattern
               /\ found.pattern.daysOfWeek = <<days>>
               /\ found.tokensConsumed
                    = IF Len(ArgWords) >= 2 /\ ArgWords[2] \in TimeWords THEN 2 ELSE 1

(***************************************************************************)
(* Patterns with a set of weekdays                                         *)
(***************************************************************************)
\* the members of a set of numbers in ascending order
RECURSIVE Ascending(_)
Ascending(S) ==
    IF S = {} THEN <<>>
    ELSE LET least == CHOOSE x \in S : \A y \in S : x <= y
         IN  <<least>> \o Ascending(S \ {least})

\* a calendar weekly pattern that carries daysOfWeek, any set of one or more
\* weekdays in ascending order, with or without a time of day, handed to
\* formatRecurrence
InitRecurrenceFormat ==
    /\ mode = "churn"
    /\ referenceDate = <<>>
    /\ now \in Clocks
    /\ arg \in {<<[mode |-> "calendar", type |-> "weekly", interval |-> <<>>, unit |-> <<>>,
                   dayOfWeek |-> <<>>, daysOfWeek |-> <<Ascending(days)>>,
                   timeOfDay |-> time, anchor |-> anchor]>> :
                  days \in (SUBSET (0..6)) \ {{}},
                  time \in {<<>>, << <<"0", "9", ":", "3", "0">> >>},
                  anchor \in {<<>>, <<RefDate>>}}
    /\ input = <<>>
    /\ NoCalls

\* formatRecurrence(arg)
CallFormatRecurrence ==
    /\ result = <<>>
    /\ arg # <<>>
    /\ result' = <<formatRecurrence(arg[1])>>
    /\ UNCHANGED <<held, pc, tokens, task, formatted, task2, formatted2>>

SpecRecurrenceFormat == InitRecurrenceFormat /\ [][CallFormatRecurrence]_vars

\* C15: formatRecurrence of a calendar weekly pattern that carries daysOfWeek
\* returns `weekdays` for the days 1 to 5 and otherwise the three-letter
\* abbreviations of the days, in ascending order and joined by commas,
\* followed by a space and the time of day when the pattern has one.
C15_WeekdaySetFormat ==
    result # <<>> =>
        LET days   == arg[1].daysOfWeek[1]
            short  == << <<"S", "u", "n">>, <<"M", "o", "n">>, <<"T", "u", "e">>, <<"W", "e", "d">>, <<"T", "h", "u">>, <<"F", "r", "i">>, <<"S", "a", "t">> >>
            listed == Join([i \in DOMAIN days |-> short[days[i] + 1]], <<",">>)
            time   == IF arg[1].timeOfDay = <<>> THEN <<>>
                      ELSE <<" ">> \o arg[1].timeOfDay[1]
        IN  result[1] = (IF days = <<1, 2, 3, 4, 5>> THEN <<"w", "e", "e", "k", "d", "a", "y", "s">> ELSE listed) \o time

\* ArgWords starts with a recurrence that one of the branches matches, of
\* this many words
MatchedWords ==
    IF ArgWords # <<>> /\ ArgWords[1] \in ShorthandWords THEN 1
    ELSE IF /\ Len(ArgWords) >= 2
            /\ \/ ArgWords[1] \in EveryWords /\ ArgWords[2] \in DayWords \cup IntervalWords
               \/ ArgWords[1] \in AfterWords /\ ArgWords[2] \in IntervalWords
    THEN 2
    ELSE 0

\* C16: in every branch of parseRecurrence that matches (a shorthand, every
\* <weekday>, every <interval>, after <interval>), a next word H:MM or HH:MM
\* with hour 0-23 and minute 00-59 is consumed and becomes timeOfDay with the
\* hour padded to two digits, tokensConsumed being one more than without it;
\* any other next word, or none, leaves timeOfDay absent and the word
\* unconsumed, and raises no error.  In a churn line the unconsumed words are
\* the title.
C16_TrailingTime ==
    MatchedWords > 0 =>
        LET next    == IF Len(ArgWords) > MatchedWords THEN <<ArgWords[MatchedWords + 1]>>
                       ELSE <<>>
            timed   == next # <<>> /\ next[1] \in TimeWords
            time    == IF ~timed THEN <<>>
                       ELSE IF Len(next[1]) = 4 THEN << <<"0">> \o next[1] >> ELSE next
            used    == IF timed THEN MatchedWords + 1 ELSE MatchedWords
            rest    == SubSeq(ArgWords \o << <<"T", "a", "s", "k">> >>, used + 1, Len(ArgWords) + 1)
        IN  /\ result # <<>> =>
                  /\ result[1].ok
                  /\ result[1].value # <<>>
                  /\ result[1].value[1].pattern.timeOfDay = time
                  /\ result[1].value[1].tokensConsumed = used
            /\ pc \in {"parsed", "failed"} =>
                  /\ pc = "parsed"
                  /\ task[1].value.recurrence # <<>>
                  /\ task[1].value.recurrence[1].timeOfDay = time
                  /\ task[1].value.title = Join(rest, <<" ">>)

\* `Weekly 9:30 app` has given the time of day 09:30 and consumed 2 words
C16_Witness ==
    /\ arg = <<"W", "e", "e", "k", "l", "y", " ", "9", ":", "3", "0", " ", "a", "p", "p">>
    /\ result # <<>>
    /\ result[1].ok
    /\ result[1].value[1].pattern.timeOfDay = << <<"0", "9", ":", "3", "0">> >>
    /\ result[1].value[1].tokensConsumed = 2
    /\ pc = "parsed"
    /\ task[1].value.title = <<"a", "p", "p", " ", "T", "a", "s", "k">>

\* the patterns that the calls made so far have returned
ReturnedPatterns ==
    (IF result # <<>> /\ result[1].ok /\ result[1].value # <<>>
     THEN {result[1].value[1].pattern} ELSE {})
    \cup (IF pc # "failed" /\ task # <<>> /\ task[1].value.recurrence # <<>>
          THEN {task[1].value.recurrence[1]} ELSE {})
    \cup (IF task2 # <<>> /\ task2[1].ok /\ task2[1].value.recurrence # <<>>
          THEN {task2[1].value.recurrence[1]} ELSE {})

\* C17: a pattern returned by parseRecurrence has an anchor only in calendar
\* mode, has an interval and a unit only when its type is interval, the
\* interval then being at least 1, and never has both dayOfWeek and
\* daysOfWeek.
C17_PatternInvariants ==
    \A pattern \in ReturnedPatterns :
        /\ pattern.anchor # <<>> => pattern.mode = "calendar"
        /\ pattern.mode = "completion" => pattern.anchor = <<>>
        /\ pattern.interval # <<>> => pattern.type = "interval" /\ pattern.interval[1] >= 1
        /\ pattern.unit # <<>> => pattern.type = "interval"
        /\ ~(pattern.dayOfWeek # <<>> /\ "daysOfWeek" \in DOMAIN pattern)

\* `AFTER 30d`, parsed with a reference date, has given a completion pattern
\* of 30 days with no anchor
C17_Witness ==
    /\ arg = <<"A", "F", "T", "E", "R", " ", "3", "0", "d">>
    /\ referenceDate # <<>>
    /\ result # <<>>
    /\ result[1].ok
    /\ result[1].value[1].pattern.mode = "completion"
    /\ result[1].value[1].pattern.interval = <<30>>
    /\ result[1].value[1].pattern.unit = <<"days">>
    /\ result[1].value[1].pattern.anchor = <<>>

(***************************************************************************)
(* Bucket markers                                                          *)
(***************************************************************************)
BucketWords ==
    { <<"T", "a", "s", "k">>, <<"i", "s">>, <<"%", "A", "d", "m", "i", "n">>, <<"%", "p", "r", "o", "j", "e", "c", "t", "-", "x">>, <<"%", "P", "r", "o", "j", "e", "c", "t", "_", "A">>, <<"5", "0", "%">>, <<"%", "1", "x">>,
      <<"$", "A", "d", "m", "i", "n">> }

InitBucket == InitWith({"churn"}, {<<>>}, Lines(BucketWords, MaxWords))

SpecBucket == InitBucket /\ [][Next]_vars

\* the words % <identifier> of a line
PercentWords(line) ==
    SelectSeq(Words(line),
              LAMBDA w : Len(w) >= 2 /\ w[1] = "%" /\ IsLetter(w[2]))

\* C18: in churn mode a word % <identifier> sets bucket to the identifier
\* (the first such word's) and is removed from the title, and a % that does
\* not start such a word (50%, %1x) stays in the title, bucket being absent
\* when the line has no such word.
C18_PercentBucket ==
    (pc = "parsed" /\ \A i \in DOMAIN Words(input) : Words(input)[i][1] # "$") =>
        /\ task[1].value.bucket
             = IF PercentWords(input) = <<>> THEN <<>>
               ELSE <<Tail(PercentWords(input)[1])>>
        /\ task[1].value.title
             = Join(SelectSeq(Words(input),
                              LAMBDA w : w \notin Range(PercentWords(input))),
                    <<" ">>)

(***************************************************************************)
(* The state marker slot of tt lines                                       *)
(***************************************************************************)
MarkerSlotWords ==
    { <<"2", "0", "2", "5", "-", "0", "1", "-", "1", "0">>, <<"0", "9", ":", "0", "0">>, <<"@", "e", "n", "d">>, <<"@", "p", "a", "u", "s", "e">>, <<"@", "a", "b", "a", "n", "d", "o", "n">>, <<"@", "r", "e", "s", "u", "m", "e">>, <<"@", "p", "r", "e", "v">>,
      <<"@", "3">>, <<"@", "e", "n", "d", "x">>, <<"T", "a", "s", "k">> }

InitMarkerSlot == InitWith({"tt"}, {<<>>}, Lines(MarkerSlotWords, MaxWords))

SpecMarkerSlot == InitMarkerSlot /\ [][Next]_vars

\* how many words of the line are its timestamp
TimestampWords(line) ==
    LET ws == Words(line)
    IN  IF Len(ws) >= 2 /\ ws[1] = <<"2", "0", "2", "5", "-", "0", "1", "-", "1", "0">> /\ ws[2] = <<"0", "9", ":", "0", "0">> THEN 2
        ELSE IF ws[1] = <<"0", "9", ":", "0", "0">> THEN 1
        ELSE 0

\* the word right after the timestamp, if any
SlotWord(line) ==
    IF Len(Words(line)) > TimestampWords(line)
    THEN <<Words(line)[TimestampWords(line) + 1]>>
    ELSE <<>>

\* C19: the tokens of a tt line hold at most one TIMESTAMP token, the first,
\* and at most one END, PAUSE, ABANDON or RESUME marker token, which comes
\* from the word right after the optional timestamp; no tt record has both
\* state and resumeMarker, state is end, pause or abandon, and an @end,
\* @pause, @abandon, @resume or @prev later in the line is no state marker
\* (it is a project).
C19_SingleMarkerSlot ==
    LET toks    == tokens[1].value
        slot    == SlotWord(input)
        stated  == slot # <<>> /\ slot[1] \in { <<"@", "e", "n", "d">>, <<"@", "p", "a", "u", "s", "e">>, <<"@", "a", "b", "a", "n", "d", "o", "n">> }
        resumed == slot # <<>> /\ slot[1] \in { <<"@", "r", "e", "s", "u", "m", "e">>, <<"@", "p", "r", "e", "v">>, <<"@", "3">> }
        later   == SelectSeq(SubSeq(Words(input),
                                    TimestampWords(input) + (IF stated \/ resumed THEN 2 ELSE 1),
                                    Len(Words(input))),
                             LAMBDA w : Len(w) >= 2 /\ w[1] = "@" /\ IsLetter(w[2]))
        t       == task[1].value
    IN  /\ (pc # "ready" /\ tokens[1].ok) =>
              /\ {i \in DOMAIN toks : toks[i].type = "TIMESTAMP"}
                   = IF TimestampWords(input) > 0 THEN {1} ELSE {}
              /\ {i \in DOMAIN toks : toks[i].type \in {"END_MARKER", "PAUSE_MARKER",
                                                         "ABANDON_MARKER", "RESUME_MARKER"}}
                   = IF stated \/ resumed
                     THEN {IF TimestampWords(input) > 0 THEN 2 ELSE 1} ELSE {}
        /\ pc = "parsed" =>
              /\ ~(t.state # <<>> /\ t.resumeMarker # <<>>)
              /\ t.state = IF ~stated THEN <<>>
                           ELSE IF slot[1] = <<"@", "e", "n", "d">> THEN <<"end">>
                           ELSE IF slot[1] = <<"@", "p", "a", "u", "s", "e">> THEN <<"pause">>
                           ELSE <<"abandon">>
              /\ t.resumeMarker = IF resumed THEN <<Tail(slot[1])>> ELSE <<>>
              /\ t.project = IF later = <<>> THEN <<>> ELSE <<Tail(later[1])>>

\* `09:00 @pause @end` is paused, and end is its project
C19_Witness ==
    /\ pc = "parsed"
    /\ input = <<"0", "9", ":", "0", "0", " ", "@", "p", "a", "u", "s", "e", " ", "@", "e", "n", "d">>
    /\ task[1].value.state = <<"pause">>
    /\ task[1].value.resumeMarker = <<>>
    /\ task[1].value.project = << <<"e", "n", "d">> >>

(***************************************************************************)
(* Remarks of tt lines                                                     *)
(***************************************************************************)
RemarkWords ==
    { <<"T", "a", "s", "k">>, <<"#">>, <<"#", "x">>, <<"@", "x">>, <<"+", "y">>, <<"~", "1", "h">>, <<"^", "3">>, <<"-", ">", "c", "o", "m", "p", "l", "e", "t", "e", "d">> }

InitRemark == InitWith({"tt"}, {<<>>}, Lines(RemarkWords, MaxWords))

SpecRemark == InitRemark /\ [][Next]_vars

\* the place of the first word `#` that has a word after it, or 0
RemarkAt(line) ==
    LET at == {i \in DOMAIN Words(line) : Words(line)[i] = <<"#">> /\ i < Len(Words(line))}
    IN  IF at = {} THEN 0 ELSE Min(at)

\* the words before the remark marker: all of them without one
BeforeRemark(line) ==
    IF RemarkAt(line) = 0 THEN Words(line) ELSE SubSeq(Words(line), 1, RemarkAt(line) - 1)

\* C20: in tt mode, once `# ` is met at the start of a word, the REMARK
\* token's value is all the rest of the line, it is the last token and the
\* only REMARK token, and the marker texts after it produce no token and
\* change no field: every field but remark is that of the words before the
\* marker.
C20_RemarkTerminates ==
    LET toks    == tokens[1].value
        ws      == Words(input)
        before  == BeforeRemark(input)
        rest    == Join(SubSeq(ws, RemarkAt(input) + 1, Len(ws)), <<" ">>)
        remarks == {i \in DOMAIN toks : toks[i].type = "REMARK"}
        t       == task[1].value
    IN  /\ (pc # "ready" /\ tokens[1].ok) =>
              IF RemarkAt(input) = 0 THEN remarks = {}
              ELSE /\ remarks = {Len(toks)}
                   /\ toks[Len(toks)].value = rest
                   /\ Cardinality({i \in DOMAIN toks :
                                      toks[i].type \notin {"REMARK", "DESCRIPTION"}})
                        = Len(SelectSeq(before,
                                        LAMBDA w : w \notin { <<"T", "a", "s", "k">>, <<"#", "x">>, <<"#">> }))
        /\ pc = "parsed" =>
              /\ t.remark = IF RemarkAt(input) = 0 THEN <<>> ELSE <<rest>>
              /\ t.title = Join(SelectSeq(before, LAMBDA w : w \in { <<"T", "a", "s", "k">>, <<"#", "x">>, <<"#">> }),
                                <<" ">>)
              /\ t.project = IF <<"@", "x">> \in Range(before) THEN << <<"x">> >> ELSE <<>>
              /\ t.tags = [i \in DOMAIN SelectSeq(before, LAMBDA w : w = <<"+", "y">>) |-> <<"y">>]
              /\ t.duration = IF <<"~", "1", "h">> \in Range(before) THEN <<60>> ELSE <<>>
              /\ t.priority = IF <<"^", "3">> \in Range(before) THEN <<3>> ELSE <<>>
              /\ t.stateSuffix = IF <<"-", ">", "c", "o", "m", "p", "l", "e", "t", "e", "d">> \in Range(before)
                                 THEN << <<"c", "o", "m", "p", "l", "e", "t", "e", "d">> >> ELSE <<>>

\* `Task # @x` has the remark `@x` and no project
C20_Witness ==
    /\ pc = "parsed"
    /\ input = <<"T", "a", "s", "k", " ", "#", " ", "@", "x">>
    /\ task[1].value.remark = << <<"@", "x">> >>
    /\ task[1].value.project = <<>>
    /\ task[1].value.title = <<"T", "a", "s", "k">>
    /\ Len(tokens[1].value) = 2

(***************************************************************************)
(* Two parses of one line at different wall-clock times                    *)
(***************************************************************************)
\* what `new Date()` returns later: the next day at 08:05, and 2026-03-01
LaterClocks ==
    {[year |-> 2025, month |-> 1, day |-> 16, hours |-> 8, minutes |-> 5, seconds |-> 0],
     [year |-> 2026, month |-> 3, day |-> 1, hours |-> 10, minutes |-> 30, seconds |-> 0]}

\* a parser of either mode built with a reference date, and a line with
\* relative dates, recurrences or timestamps
InitClock ==
    \/ InitWith({"churn"}, {<<RefDate>>},
                Lines({ <<"T", "a", "s", "k">>, <<"t", "o", "d", "a", "y">>, <<"t", "o", "m", "o", "r", "r", "o", "w">>, <<"f", "r", "i", "d", "a", "y">>, <<"d", "a", "i", "l", "y">>, <<"e", "v", "e", "r", "y">>,
                        <<"2", "w">>, <<"2", "0", "2", "5", "-", "0", "3", "-", "1", "0">>, <<"@", "p">> }, MaxWords))
    \/ InitWith({"tt"}, {<<RefDate>>},
                Lines({ <<"T", "a", "s", "k">>, <<"0", "9", ":", "0", "0">>, <<"2", "0", "2", "5", "-", "0", "1", "-", "1", "0">>, <<"@", "e", "n", "d">>, <<"@", "p">>, <<"2", "5", ":", "9", "9">> },
                      MaxWords))

\* parser.parse(input) once more, when the wall clock has moved on
ParseLater ==
    /\ result = <<>>
    /\ \E later \in LaterClocks :
          result' = <<TaskParserParse(input, mode, referenceDate, later)>>
    /\ UNCHANGED <<held, pc, tokens, task, formatted, task2, formatted2>>

NextClock == ParseLater \/ Next

SpecClock == InitClock /\ [][NextClock]_vars

\* C21: with a fixed referenceDate, two parses of the same line at different
\* wall-clock times give equal outcomes in both modes: equal records, date,
\* recurrence anchor and timestamp included.
C21_Determinism ==
    (result # <<>> /\ pc \in {"parsed", "failed"}) => result[1] = task[1]

\* in churn mode the two parses agree: the ambient clock is read in tt mode
\* only
C21_DeterminismChurn ==
    (mode = "churn" /\ result # <<>> /\ pc \in {"parsed", "failed"}) => result[1] = task[1]

(***************************************************************************)
(* Leading dates and recurrences of churn lines                            *)
(***************************************************************************)
LeadingWords ==
    { <<"T", "a", "s", "k">>, <<"X">>, <<"t", "o", "d", "a", "y">>, <<"m", "o", "n", "d", "a", "y">>, <<"d", "a", "i", "l", "y">>, <<"e", "v", "e", "r", "y">>, <<"2", "w">>, <<"@", "p">>, <<"+", "a">> }

InitLeading == InitWith({"churn"}, {<<>>, <<RefDate>>}, Lines(LeadingWords, MaxWords))

SpecLeading == InitLeading /\ [][Next]_vars

\* the words of a line that are not markers, and the first run of them
IsPlainWord(w) == w \notin { <<"@", "p">>, <<"+", "a">> }

FirstRun(line) ==
    LET ws    == Words(line)
        from  == {i \in DOMAIN ws : IsPlainWord(ws[i])}
        first == IF from = {} THEN 0 ELSE Min(from)
        ends  == {i \in DOMAIN ws : i > first /\ ~IsPlainWord(ws[i])}
    IN  IF first = 0 THEN <<>>
        ELSE SubSeq(ws, first, IF ends = {} THEN Len(ws) ELSE Min(ends) - 1)

\* what the first run starts with: "recurrence", "date", "error" (`every`
\* with no weekday or interval after it) or "none", and how many words that is
LeadingKind(run) ==
    IF run = <<>> THEN "none"
    ELSE IF run[1] = <<"d", "a", "i", "l", "y">> THEN "recurrence"
    ELSE IF run[1] = <<"e", "v", "e", "r", "y">>
    THEN IF Len(run) >= 2 /\ run[2] \in { <<"m", "o", "n", "d", "a", "y">>, <<"2", "w">> } THEN "recurrence" ELSE "error"
    ELSE IF run[1] \in { <<"t", "o", "d", "a", "y">>, <<"m", "o", "n", "d", "a", "y">> } THEN "date"
    ELSE "none"

LeadingLen(run) ==
    IF LeadingKind(run) = "recurrence" THEN (IF run[1] = <<"d", "a", "i", "l", "y">> THEN 1 ELSE 2)
    ELSE IF LeadingKind(run) = "date" THEN 1
    ELSE 0

\* the plain words of a line without the leading ones of its first run
TitleWords(line) ==
    LET plain == SelectSeq(Words(line), IsPlainWord)
    IN  SubSeq(plain, LeadingLen(FirstRun(line)) + 1, Len(plain))

\* C22: in churn mode only the leading words of the first description token
\* are examined, for a recurrence first and, when there is none, the first
\* word for a date; the consumed words are removed and all other description
\* words, joined by single spaces, are the title.  No record has both date
\* and recurrence, `monday X` has a date and `every monday X` a recurrence,
\* and a date word elsewhere stays in the title.
C22_LeadingExtraction ==
    LET kind == LeadingKind(FirstRun(input))
        t    == task[1].value
    IN  /\ (pc \in {"parsed", "failed"} /\ NonBlank(input)) =>
              (pc = "failed" <=> (kind = "error" \/ TitleWords(input) = <<>>))
        /\ pc = "parsed" =>
              /\ ~(t.date # <<>> /\ t.recurrence # <<>>)
              /\ t.date # <<>> <=> kind = "date"
              /\ t.recurrence # <<>> <=> kind = "recurrence"
              /\ t.title = Join(TitleWords(input), <<" ">>)

\* `@p today Task`: the first description token starts after the project,
\* and today is its date
C22_Witness ==
    /\ pc = "parsed"
    /\ input = <<"@", "p", " ", "t", "o", "d", "a", "y", " ", "T", "a", "s", "k">>
    /\ task[1].value.date # <<>>
    /\ task[1].value.title = <<"T", "a", "s", "k">>

\* `Task @p today`: today is not at the start of the first description token
C22_WitnessLater ==
    /\ pc = "parsed"
    /\ input = <<"T", "a", "s", "k", " ", "@", "p", " ", "t", "o", "d", "a", "y">>
    /\ task[1].value.date = <<>>
    /\ task[1].value.title = <<"T", "a", "s", "k", " ", "t", "o", "d", "a", "y">>

(***************************************************************************)
(* formatChurnTask of records built by a caller                            *)
(***************************************************************************)
DailyAtNine ==
    [mode |-> "calendar", type |-> "daily", interval |-> <<>>, unit |-> <<>>,
     dayOfWeek |-> <<>>, timeOfDay |-> << <<"0", "9", ":", "0", "0">> >>, anchor |-> <<>>]

AfterTwoWeeks ==
    [mode |-> "completion", type |-> "interval", interval |-> <<2>>, unit |-> <<"weeks">>,
     dayOfWeek |-> <<>>, timeOfDay |-> <<>>, anchor |-> <<>>]

InitFormatChurn ==
    /\ mode = "churn"
    /\ referenceDate = <<>>
    /\ now \in Clocks
    /\ arg \in {<<[title |-> title, project |-> project, tags |-> tags, duration |-> duration,
                   raw |-> <<>>, date |-> date, bucket |-> bucket, recurrence |-> recurrence,
                   window |-> window, dependencies |-> dependencies]>> :
                  title \in { <<>>, <<"T", "a", "s", "k">>, <<"D", "o", " ", "i", "t">> },
                  project \in { <<>>, << <<>> >>, << <<"p">> >> },
                  tags \in { <<>>, << <<"a">> >>, << <<"b">>, <<"a">> >> },
                  duration \in { <<>>, <<0>>, <<90>> },
                  date \in { <<>>, <<RefDate>> },
                  bucket \in { <<>>, << <<"b">> >> },
                  recurrence \in { <<>>, <<DailyAtNine>>, <<AfterTwoWeeks>> },
                  window \in { <<>>, <<[start |-> <<"0", "9", ":", "0", "0">>, end |-> <<"1", "7", ":", "0", "0">>]>> },
                  dependencies \in { <<>>, << <<>> >>, << <<3, 1>> >> }}
    /\ input = <<>>
    /\ NoCalls

\* TaskParser.format(task) of a churn parser
CallFormatChurn ==
    /\ result = <<>>
    /\ arg # <<>>
    /\ result' = <<TaskParserFormat(arg[1], mode)>>
    /\ UNCHANGED <<held, pc, tokens, task, formatted, task2, formatted2>>

SpecFormatChurn == InitFormatChurn /\ [][CallFormatChurn]_vars

\* the text of each field of a record, or nothing, in the documented order
FragmentsOf(t) ==
    << IF t.recurrence = <<DailyAtNine>> THEN << <<"d", "a", "i", "l", "y", " ", "0", "9", ":", "0", "0">> >>
       ELSE IF t.recurrence = <<AfterTwoWeeks>> THEN << <<"a", "f", "t", "e", "r", " ", "2", "w">> >>
       ELSE <<>>,
       IF t.recurrence = <<>> /\ t.date # <<>> THEN << <<"2", "0", "2", "5", "-", "0", "2", "-", "0", "3">> >> ELSE <<>>,
       IF t.title = <<>> THEN <<>> ELSE <<t.title>>,
       IF t.project = << <<"p">> >> THEN << <<"@", "p">> >> ELSE <<>>,
       IF t.tags = <<>> THEN <<>> ELSE IF Len(t.tags) = 1 THEN << <<"+", "a">> >> ELSE << <<"+", "b">>, <<"+", "a">> >>,
       IF t.duration = <<0>> THEN << <<"~", "0", "m">> >>
       ELSE IF t.duration = <<90>> THEN << <<"~", "1", "h", "3", "0", "m">> >> ELSE <<>>,
       IF t.bucket = <<>> THEN <<>> ELSE << <<"$", "b">> >>,
       IF t.window = <<>> THEN <<>> ELSE << <<"w", "i", "n", "d", "o", "w", ":", "0", "9", ":", "0", "0", "-", "1", "7", ":", "0", "0">> >>,
       IF t.dependencies = << <<3, 1>> >> THEN << <<"a", "f", "t", "e", "r", ":", "3", ",", "1">> >> ELSE <<>> >>

MaxMinutes == 130

MaxCalls == 3

DurationNumbers == { <<"0">>, <<"1">>, <<"0", "5">>, <<"5", "9">>, <<"6", "0">>, <<"9", "0">>, <<"1", "0", "0">> }

DurationTexts ==
    {h \o <<"h">> \o m \o <<"m">> : h \in DurationNumbers, m \in DurationNumbers}
    \cup {h \o <<"h">> : h \in DurationNumbers}
    \cup {m \o <<"m">> : m \in DurationNumbers}

InitDuration ==
    /\ mode \in {"churn", "tt"}
    /\ referenceDate = <<>>
    /\ now \in Clocks
    /\ \/ arg \in {<<[minutes |-> <<n>>, text |-> <<>>]>> : n \in 0..MaxMinutes}
       \/ arg \in {<<[minutes |-> <<>>, text |-> <<t>>]>> : t \in DurationTexts}
    /\ input = <<>>
    /\ NoCalls

\* what the next call is given: the caller's value, or what the last call
\* returned
Held == IF result = <<>> THEN arg[1] ELSE result[Len(result)]

\* formatDuration(minutes) of the library
CallFormatDuration ==
    /\ Len(result) < MaxCalls
    /\ Held.minutes # <<>>
    /\ result' = Append(result, [minutes |-> <<>>, text |-> <<FormatDuration(Held.minutes[1])>>])
    /\ UNCHANGED <<held, pc, tokens, task, formatted, task2, formatted2>>

\* formatDurationValue(minutes) of the tt formatter
CallFormatDurationValue ==
    /\ Len(result) < MaxCalls
    /\ Held.minutes # <<>>
    /\ result' = Append(result, [minutes |-> <<>>, text |-> <<FormatDurationValue(Held.minutes[1])>>])
    /\ UNCHANGED <<held, pc, tokens, task, formatted, task2, formatted2>>

\* parseDuration(text)
CallParseDuration ==
    /\ Len(result) < MaxCalls
    /\ Held.text # <<>>
    /\ result' = Append(result, [minutes |-> <<ParseDuration(Held.text[1])>>, text |-> <<>>])
    /\ UNCHANGED <<held, pc, tokens, task, formatted, task2, formatted2>>

NextDuration == CallFormatDuration \/ CallFormatDurationValue \/ CallParseDuration

SpecDuration == InitDuration /\ [][NextDuration]_vars

\* a number written without a leading zero
IsPlainNumber(s) == Len(s) > 0 /\ RunLen(s, 0, DigitChars) = Len(s) /\ (s[1] # "0" \/ Len(s) = 1)

\* text is the canonical duration of n minutes: <H>h<M>m with both positive
\* and M below 60, <H>h with H positive, or <M>m with M below 60
IsCanonicalDuration(text, n) ==
    LET h  == RunLen(text, 0, DigitChars)
        hs == Take(text, h)
        ms == SubSeq(text, h + 2, Len(text) - 1)
    IN  /\ IsPlainNumber(hs)
        /\ Len(text) > h
        /\ IF text[h + 1] = "m"
           THEN Len(text) = h + 1 /\ n < 60 /\ ParseInt(hs) = n
           ELSE /\ text[h + 1] = "h"
                /\ ParseInt(hs) = n \div 60
                /\ n \div 60 > 0
                /\ IF Len(text) = h + 1 THEN n % 60 = 0
                   ELSE /\ text[Len(text)] = "m"
                        /\ IsPlainNumber(ms)
                        /\ ParseInt(ms) = n % 60
                        /\ n % 60 > 0

\* C24: formatting n minutes gives <H>h<M>m when both H = n div 60 and
\* M = n mod 60 are positive, <H>h when only H is, and <M>m otherwise (0m for
\* 0), and parsing that text gives n back; parsing a duration text,
\* formatting the minutes and parsing again gives the same minutes.
C24_DurationCanonical ==
    \A i \in DOMAIN result :
        LET before == IF i = 1 THEN arg[1] ELSE result[i - 1]
        IN  /\ result[i].text # <<>> => IsCanonicalDuration(result[i].text[1], before.minutes[1])
            /\ (result[i].minutes # <<>> /\ i >= 2) =>
                   LET given == IF i = 2 THEN arg[1] ELSE result[i - 2]
                   IN  result[i].minutes = given.minutes

\* 1h90m is 150 minutes, written 2h30m, which is 150 minutes again
C24_Witness ==
    /\ arg[1].text = << <<"1", "h", "9", "0", "m">> >>
    /\ Len(result) = 3
    /\ result[1].minutes = <<150>>
    /\ result[2].text = << <<"2", "h", "3", "0", "m">> >>
    /\ result[3].minutes = <<150>>

\* 0 minutes is written 0m by the tt formatter, and parsed back as 0
C24_WitnessZero ==
    /\ mode = "tt"
    /\ arg[1].minutes = <<0>>
    /\ Len(result) = 2
    /\ result[1].text = << <<"0", "m">> >>
    /\ result[2].minutes = <<0>>

(***************************************************************************)
(* Token positions: lines whose words are one or two spaces apart          *)
(***************************************************************************)
\* the lines of at most n words of `lexicon`, each gap one or two spaces wide
Spaced(lexicon, n) == Lines(lexicon \cup {w \o <<" ">> : w \in lexicon}, n)

InitPosition ==
    \/ InitWith({"churn"}, {<<>>}, Spaced({ <<"T", "a", "s", "k">>, <<"X">>, <<"@", "p">>, <<"+", "a">>, <<"~", "1", "h">> }, MaxWords))
    \/ InitWith({"tt"}, {<<>>}, Spaced({ <<"0", "9", ":", "0", "0">>, <<"@", "e", "n", "d">>, <<"T", "a", "s", "k">>, <<"@", "p">>, <<"^", "3">> }, MaxWords))

SpecPosition == InitPosition /\ [][Next]_vars

\* the character that introduces a token of a type, if any
SigilOf(type) ==
    IF type \in {"PROJECT", "END_MARKER", "PAUSE_MARKER", "ABANDON_MARKER", "RESUME_MARKER"} THEN <<"@">>
    ELSE IF type = "TAG" THEN <<"+">>
    ELSE IF type = "DURATION" THEN <<"~">>
    ELSE IF type = "PRIORITY" THEN <<"^">>
    ELSE <<>>

\* the token's text, or the first word of a description, is written at the
\* token's position, where a word starts
MatchedAt(trimmed, t) ==
    /\ StartsWithAt(trimmed, t.position,
                    SigilOf(t.type) \o (IF t.type = "DESCRIPTION" THEN SplitWs(t.value)[1] ELSE t.value))
    /\ t.position = 0 \/ trimmed[t.position] \in SpaceChars

\* C25: every token returned by tokenize, of any kind and in either mode, has
\* the position of the first character of the text it was matched from in the
\* trimmed input (for a description, of its first word), whatever the amount
\* of white space between the tokens.
C25_TokenPosition ==
    (pc # "ready" /\ tokens[1].ok) =>
        \A i \in DOMAIN tokens[1].value : MatchedAt(Trim(input), tokens[1].value[i])

\* in churn mode the tokens other than descriptions, and a description that
\* starts the line, are positioned where their text starts
C25_MarkerPositionChurn ==
    (pc # "ready" /\ tokens[1].ok /\ mode = "churn") =>
        \A i \in DOMAIN tokens[1].value :
            (tokens[1].value[i].type # "DESCRIPTION" \/ i = 1) =>
                MatchedAt(Trim(input), tokens[1].value[i])

(***************************************************************************)
(* The tokenizer's loop, one iteration at a time.  `result` holds the      *)
(* scanner's local variables (remaining, position, tokens,                 *)
(* descriptionParts, descStartPosition) once tokenize is entered; pc is    *)
(* "timestamp" and "marker" at the two prefix matches of tt mode,          *)
(* "scanning" while the loop runs and "scanned" after the final flush.     *)
(***************************************************************************)
InitScan ==
    \/ InitWith({"churn"}, {<<>>}, Spaced({ <<"T", "a", "s", "k">>, <<"X">>, <<"@", "p">>, <<"~", "1", "h">> }, MaxWords))
    \/ InitWith({"tt"}, {<<>>}, Spaced({ <<"0", "9", ":", "0", "0">>, <<"T", "a", "s", "k">>, <<"@", "p">>, <<"^", "3">>, <<"#">> }, MaxWords))

\* lines 27-34: the trim, the empty-input error, the scanner's variables
ScanStart ==
    /\ pc = "ready"
    /\ IF NonBlank(input)
       THEN /\ result' = <<TokenizeStart(Trim(input))>>
            /\ pc' = IF mode = "tt" THEN "timestamp" ELSE "scanning"
       ELSE /\ result' = result
            /\ pc' = "failed"
    /\ UNCHANGED <<held, tokens, task, formatted, task2, formatted2>>

\* lines 37-47: tt mode, the timestamp at the very start
ScanTimestamp ==
    /\ pc = "timestamp"
    /\ result' = <<TimestampPrefix(result[1])>>
    /\ pc' = "marker"
    /\ UNCHANGED <<held, tokens, task, formatted, task2, formatted2>>

\* lines 49-77: tt mode, the state marker; descStartPosition starts at position
ScanStateMarker ==
    /\ pc = "marker"
    /\ result' = <<[StateMarkerPrefix(result[1]) EXCEPT !.descStartPosition = StateMarkerPrefix(result[1]).position]>>
    /\ pc' = "scanning"
    /\ UNCHANGED <<held, tokens, task, formatted, task2, formatted2>>

\* lines 79-348: one iteration of the while loop
ScanStep ==
    /\ pc = "scanning"
    /\ ~result[1].done
    /\ Len(result[1].remaining) > 0
    /\ result' = <<LoopIteration(result[1], mode)>>
    /\ UNCHANGED <<held, pc, tokens, task, formatted, task2, formatted2>>

\* lines 350-362: the loop is left, the last description is flushed
ScanEnd ==
    /\ pc = "scanning"
    /\ result[1].done \/ Len(result[1].remaining) = 0
    /\ result' = <<FlushDescription(result[1])>>
    /\ pc' = "scanned"
    /\ UNCHANGED <<held, tokens, task, formatted, task2, formatted2>>

NextScan == ScanStart \/ ScanTimestamp \/ ScanStateMarker \/ ScanStep \/ ScanEnd

SpecScan == InitScan /\ [][NextScan]_vars

\* a description value: not empty, no white space at its ends, no two white
\* space characters in a row
IsCleanText(v) ==
    /\ Len(v) > 0
    /\ v[1] \notin SpaceChars
    /\ v[Len(v)] \notin SpaceChars
    /\ \A i \in 1..(Len(v) - 1) : ~(v[i] \in SpaceChars /\ v[i + 1] \in SpaceChars)

\* no two DESCRIPTION tokens in a row, and every DESCRIPTION value is clean
DescriptionsApart(toks) ==
    /\ \A i \in 1..(Len(toks) - 1) : ~(toks[i].type = "DESCRIPTION" /\ toks[i + 1].type = "DESCRIPTION")
    /\ \A i \in DOMAIN toks : toks[i].type = "DESCRIPTION" => IsCleanText(toks[i].value)

\* what one step of the scanner does to the token list: nothing, or the
\* marker matched at the cursor, preceded by the pending words as one
\* DESCRIPTION when there are any; the last step flushes the pending words
FlushBeforeEmit(before, after, last) ==
    LET pending  == before.descriptionParts
        new      == SubSeq(after.tokens, Len(before.tokens) + 1, Len(after.tokens))
        consumed == Take(before.remaining, Len(before.remaining) - Len(after.remaining))
        marker   == new[Len(new)]
        flushed  == Token("DESCRIPTION", Join(pending, <<" ">>), before.descStartPosition)
    IN  /\ SubSeq(after.tokens, 1, Len(before.tokens)) = before.tokens
        /\ IF last
           THEN new = (IF pending = <<>> THEN <<>> ELSE <<flushed>>)
           ELSE \/ new = <<>> /\ Len(after.descriptionParts) = Len(pending) + 1
                \/ /\ new = (IF pending = <<>> THEN <<>> ELSE <<flushed>>) \o <<marker>>
                   /\ marker.type # "DESCRIPTION"
                   /\ marker.type # "REMARK" => TrimStart(consumed) = SigilOf(marker.type) \o marker.value
        /\ new # <<>> \/ last => after.descriptionParts = <<>>
        /\ DescriptionsApart(after.tokens)

\* C26: tokens are produced in input order; when a marker matches while
\* description words are pending, exactly one DESCRIPTION token with those
\* words joined by single spaces is emitted right before the marker's token
\* and the buffer is empty afterwards; at the end of input the pending words
\* are flushed as a last DESCRIPTION token.  No two DESCRIPTION tokens are
\* adjacent and every DESCRIPTION value is non-empty with no leading,
\* trailing or doubled white space.
C26_FlushBeforeEmit ==
    [][pc = "scanning" => FlushBeforeEmit(result[1], result'[1], pc' = "scanned")]_vars

\* `Task  @p X`: Task is flushed before the project, X at the end
C26_Witness ==
    /\ pc = "scanned"
    /\ input = <<"T", "a", "s", "k", " ", " ", "@", "p", " ", "X">>
    /\ result[1].tokens = <<Token("DESCRIPTION", <<"T", "a", "s", "k">>, 0), Token("PROJECT", <<"p">>, 6),
                            Token("DESCRIPTION", <<"X">>, 8)>>

(***************************************************************************)
(* The loop under weak fairness: the program goes on running               *)
(***************************************************************************)
InitScanFair ==
    \/ InitWith({"churn"}, {<<>>}, Lines({ <<"T", "a", "s", "k">>, <<"@", "p">> }, MaxWords))
    \/ InitWith({"tt"}, {<<>>}, Lines({ <<"0", "9", ":", "0", "0">>, <<"T", "a", "s", "k">>, <<"#">> }, MaxWords))

SpecScanFair == InitScanFair /\ [][NextScan]_vars /\ WF_vars(NextScan)

\* C27: the tokenize loop terminates: every iteration that does not leave the
\* loop strictly shortens the remaining text, and when the loop is left the
\* remaining text is empty unless a remark was opened.
C27_Terminates ==
    /\ [][(pc = "scanning" /\ pc' = "scanning" /\ ~result'[1].done) =>
              Len(result'[1].remaining) < Len(result[1].remaining)]_vars
    /\ [](pc = "scanned" =>
              \/ Len(result[1].remaining) = 0
              \/ /\ mode = "tt"
                 /\ result[1].tokens # <<>>
                 /\ result[1].tokens[Len(result[1].tokens)].type = "REMARK")
    /\ <>(pc \in {"scanned", "failed"})

\* `Task # Task`: the loop is left at the remark, with text remaining
C27_Witness ==
    /\ pc = "scanned"
    /\ mode = "tt"
    /\ input = <<"T", "a", "s", "k", " ", "#", " ", "T", "a", "s", "k">>
    /\ Len(result[1].remaining) > 0
    /\ result[1].tokens[2].type = "REMARK"

(***************************************************************************)
(* tt mode accepts every line that is not blank                            *)
(***************************************************************************)
TTWords ==
    { <<"2", "5", ":", "9", "9">>, <<"2", "0", "2", "5", "-", "0", "1", "-", "3", "1">>, <<"T", "a", "s", "k">>, <<"@", "p">>, <<"@", "e", "n", "d">>, <<"~", "1", "h">>, <<"^", "3">>, <<"^", "0">>, <<"^", "1", "0">>, <<"#">> }

InitTT == InitWith({"tt"}, {<<>>, <<RefDate>>}, BlankLines \cup Padded(Lines(TTWords, MaxWords)))

SpecTT == InitTT /\ [][Next]_vars

\* C28: in tt mode parse returns a record and raises no error for every input
\* that is not blank, also when the leading timestamp has an hour or minute
\* out of range (the Date rolls over), when the line holds only metadata and
\* when it has no timestamp; a priority, when present, is between 1 and 9.
C28_TTNeverRejects ==
    pc \in {"parsed", "failed"} =>
        /\ task[1].ok <=> NonBlank(input)
        /\ task[1].ok =>
              /\ task[1].value.priority # <<>> => task[1].value.priority[1] \in 1..9
              /\ task[1].value.timestamp # <<>> <=>
                    (Words(input)[1] = <<"2", "5", ":", "9", "9">>
                     \/ (Len(Words(input)) >= 2 /\ Words(input)[1] = <<"2", "0", "2", "5", "-", "0", "1", "-", "3", "1">>
                         /\ Words(input)[2] = <<"2", "5", ":", "9", "9">>))
              /\ task[1].value.timestamp # <<>> =>
                    /\ task[1].value.timestamp[1].hours = 2
                    /\ task[1].value.timestamp[1].minutes = 39

\* `2025-01-31 25:99 ^10`: the timestamp rolls over to 1 February 02:39, the
\* priority is 1 and the title is 0
C28_Witness ==
    /\ pc = "parsed"
    /\ input = <<"2", "0", "2", "5", "-", "0", "1", "-", "3", "1", " ", "2", "5", ":", "9", "9", " ", "^", "1", "0">>
    /\ task[1].ok
    /\ task[1].value.timestamp = <<MakeDate(2025, 2, 1, 2, 39, 0)>>
    /\ task[1].value.priority = <<1>>
    /\ task[1].value.title = <<"0">>

\* `@p ~1h`: a line of metadata only gives a record with an empty title
C28_WitnessMetadata ==
    /\ pc = "parsed"
    /\ input = <<"@", "p", " ", "~", "1", "h">>
    /\ task[1].ok
    /\ task[1].value.title = <<>>
    /\ task[1].value.timestamp = <<>>

(***************************************************************************)
(* Markers with text right after them in the same word                     *)
(***************************************************************************)
GluedWords == { <<"~", "2", "h", "f", "o", "o">>, <<"@", "a", "+", "b">>, <<"^", "1", "0">>, <<"x", "@", "a">>, <<"T", "a", "s", "k">> }

InitGlued == InitWith(ParserMode, {<<>>}, Lines(GluedWords, MaxWords))

SpecGlued == InitGlued /\ [][Next]_vars

Piece(type, value) == [type |-> type, value |-> value]

\* what one word is read as: the marker takes its matched prefix, the rest of
\* the word is read from the very next character; a marker character inside a
\* description word starts nothing
PiecesOf(word, m) ==
    IF word = <<"~", "2", "h", "f", "o", "o">> THEN <<Piece("DURATION", <<"2", "h">>), Piece("DESCRIPTION", <<"f", "o", "o">>)>>
    ELSE IF word = <<"@", "a", "+", "b">> THEN <<Piece("PROJECT", <<"a">>), Piece("TAG", <<"b">>)>>
    ELSE IF word = <<"^", "1", "0">> /\ m = "tt" THEN <<Piece("PRIORITY", <<"1">>), Piece("DESCRIPTION", <<"0">>)>>
    ELSE <<Piece("DESCRIPTION", word)>>

\* the pieces of the words of a line, the descriptions that follow one another
\* joined by single spaces
RECURSIVE Merged(_)
Merged(pieces) ==
    IF Len(pieces) < 2 THEN pieces
    ELSE IF pieces[1].type = "DESCRIPTION" /\ pieces[2].type = "DESCRIPTION"
    THEN Merged(<<Piece("DESCRIPTION", pieces[1].value \o <<" ">> \o pieces[2].value)>>
                \o SubSeq(pieces, 3, Len(pieces)))
    ELSE <<pieces[1]>> \o Merged(Tail(pieces))

RECURSIVE PiecesOfWords(_, _)
PiecesOfWords(ws, m) ==
    IF ws = <<>> THEN <<>> ELSE PiecesOf(ws[1], m) \o PiecesOfWords(Tail(ws), m)

\* C29: a marker is recognized at the start of a word even when more
\* non-space characters follow it in the word; its token takes only the
\* matched prefix and scanning resumes at the very next character: `~2hfoo`
\* is DURATION 2h then the word foo, `@a+b` is PROJECT a and TAG b, and in tt
\* mode `^10` is PRIORITY 1 then the word 0.
C29_NoWordBoundary ==
    (pc # "ready" /\ tokens[1].ok) =>
        [i \in DOMAIN tokens[1].value |-> Piece(tokens[1].value[i].type, tokens[1].value[i].value)]
            = Merged(PiecesOfWords(Words(input), mode))

\* tt mode, `~2hfoo @a+b ^10`
C29_Witness ==
    /\ pc = "tokenized"
    /\ mode = "tt"
    /\ input = <<"~", "2", "h", "f", "o", "o", " ", "@", "a", "+", "b", " ", "^", "1", "0">>
    /\ tokens[1].value = <<Token("DURATION", <<"2", "h">>, 0), Token("DESCRIPTION", <<"f", "o", "o">>, 3),
                           Token("PROJECT", <<"a">>, 7), Token("TAG", <<"b">>, 9),
                           Token("PRIORITY", <<"1">>, 12), Token("DESCRIPTION", <<"0">>, 14)>>

(***************************************************************************)
(* A second window or dependency list that would be refused on its own     *)
(***************************************************************************)
GoodWindow == <<"w", "i", "n", "d", "o", "w", ":", "0", "9", ":", "0", "0", "-", "1", "7", ":", "0", "0">>

BadWindow == <<"w", "i", "n", "d", "o", "w", ":", "2", "5", ":", "0", "0", "-", "2", "6", ":", "0", "0">>

GoodList == <<"a", "f", "t", "e", "r", ":", "1">>

BadList == <<"a", "f", "t", "e", "r", ":", "0">>

InitLater ==
    InitWith({"churn"}, {<<>>}, Marked({GoodWindow, BadWindow, GoodList, BadList, <<"@", "p">> }, MaxWords))

SpecLater == InitLater /\ [][Next]_vars

\* the first word of a line that starts with `prefix`, if any
FirstWith(line, prefix) ==
    LET ws == SelectSeq(Words(line), LAMBDA w : StartsWith(w, prefix))
    IN  IF ws = <<>> THEN <<>> ELSE <<ws[1]>>

\* C30: in churn mode only the first WINDOW token and the first DEPENDENCIES
\* token are parsed: a line whose first window and first list are valid
\* parses, with the fields taken from them, whatever the later ones are, and
\* a line whose first window or first list is invalid fails.
C30_LaterNotValidated ==
    pc \in {"parsed", "failed"} =>
        /\ task[1].ok <=> (/\ FirstWith(input, WindowPrefix) # <<BadWindow>>
                           /\ FirstWith(input, AfterPrefix) # <<BadList>>)
        /\ task[1].ok =>
              /\ task[1].value.window # <<>> <=> FirstWith(input, WindowPrefix) # <<>>
              /\ task[1].value.window # <<>> =>
                    task[1].value.window[1] = [start |-> <<"0", "9", ":", "0", "0">>, end |-> <<"1", "7", ":", "0", "0">>]
              /\ task[1].value.dependencies # <<>> <=> FirstWith(input, AfterPrefix) # <<>>
              /\ task[1].value.dependencies # <<>> => task[1].value.dependencies[1] = <<1>>

\* `Task window:09:00-17:00 window:25:00-26:00` parses
C30_Witness ==
    /\ pc = "parsed"
    /\ input = <<"T", "a", "s", "k", " ", "w", "i", "n", "d", "o", "w", ":", "0", "9", ":", "0", "0", "-", "1", "7", ":", "0", "0", " ", "w", "i", "n", "d", "o", "w", ":", "2", "5", ":", "0", "0", "-", "2", "6", ":", "0", "0">>
    /\ task[1].ok
    /\ task[1].value.window = <<[start |-> <<"0", "9", ":", "0", "0">>, end |-> <<"1", "7", ":", "0", "0">>]>>

\* `Task after:1 after:0` parses
C30_WitnessList ==
    /\ pc = "parsed"
    /\ input = <<"T", "a", "s", "k", " ", "a", "f", "t", "e", "r", ":", "1", " ", "a", "f", "t", "e", "r", ":", "0">>
    /\ task[1].value.dependencies = << <<1>> >>
====
